---- MODULE Spec2Model ----
(***************************************************************************)
(* Model of package gwt of Garcon (src/gwt/verifier.go, src/gwt/claims.go): *)
(* the verifier/tokenizer factory, the compact-token codec, the signature  *)
(* engines and the end-to-end claims extraction.                           *)
(*                                                                         *)
(* Bytes and characters are their ASCII codes (0..255); byte slices are    *)
(* sequences of them.                                                      *)
(***************************************************************************)
EXTENDS Integers, Sequences, FiniteSets, TLC

(***************************************************************************)
(* Bounds of the model.                                                    *)
(***************************************************************************)
\* the digest of the stand-in hash has HashUnit*2, *3, *4 bytes for the
\* SHA-256, SHA-384, SHA-512 families (the real ones have 32, 48, 64)
HashUnit == 1
\* the clock runs from 0 to MaxTime seconds
MaxTime == 3

(***************************************************************************)
(* Generic helpers on byte sequences.                                      *)
(***************************************************************************)
Min(a, b) == IF a < b THEN a ELSE b

Pow2(k) == CASE k = 0 -> 1 [] k = 1 -> 2 [] k = 2 -> 4 [] k = 3 -> 8
             [] k = 4 -> 16 [] k = 5 -> 32 [] k = 6 -> 64 [] OTHER -> 128

\* s[from+1 .. to] in Go's s[from:to] (0-based, half-open)
Slice(s, from, to) == SubSeq(s, from + 1, to)

\* the slice expression s[lo:hi] on a slice of n bytes is in range; the
\* program panics when it is not
SliceOK(lo, hi, n) == 0 <= lo /\ lo <= hi /\ hi <= n

Rep(c, n) == [i \in 1..n |-> c]

\* bytes.IndexByte / bytes.LastIndexByte: 0-based index, -1 when absent
IndexByte(s, c) ==
  IF \E i \in 1..Len(s) : s[i] = c
  THEN (CHOOSE i \in 1..Len(s) : s[i] = c /\ \A j \in 1..(i-1) : s[j] # c) - 1
  ELSE -1

LastIndexByte(s, c) ==
  IF \E i \in 1..Len(s) : s[i] = c
  THEN (CHOOSE i \in 1..Len(s) : s[i] = c /\ \A j \in (i+1)..Len(s) : s[j] # c) - 1
  ELSE -1

\* the byte b with bit k (0..7) inverted
FlipBit(b, k) == IF (b \div Pow2(k)) % 2 = 1 THEN b - Pow2(k) ELSE b + Pow2(k)

\* the sequence s with bit k of its i-th element inverted
FlipAt(s, i, k) == [s EXCEPT ![i] = FlipBit(@, k)]

(***************************************************************************)
(* Codec: base64url without padding (turbo64.RawURLEncoding).              *)
(***************************************************************************)
\* the 6-bit value of a character of the URL alphabet, -1 for any other byte
B64Val(c) ==
  CASE c >= 65 /\ c <= 90  -> c - 65        \* A-Z
    [] c >= 97 /\ c <= 122 -> c - 71        \* a-z
    [] c >= 48 /\ c <= 57  -> c + 4         \* 0-9
    [] c = 45              -> 62            \* -
    [] c = 95              -> 63            \* _
    [] OTHER               -> -1

B64Char(v) ==
  CASE v <= 25 -> v + 65
    [] v <= 51 -> v + 71
    [] v <= 61 -> v - 4
    [] v = 62  -> 45
    [] OTHER   -> 95

EncodedLen(n) == (n * 8 + 5) \div 6

DecodedLen(n) == (n * 6) \div 8

RECURSIVE B64EncodeFrom(_, _)
B64EncodeFrom(src, i) ==
  LET n == Len(src) - i IN
  IF n <= 0 THEN << >>
  ELSE IF n = 1 THEN
    << B64Char(src[i+1] \div 4), B64Char((src[i+1] % 4) * 16) >>
  ELSE IF n = 2 THEN
    << B64Char(src[i+1] \div 4),
       B64Char((src[i+1] % 4) * 16 + src[i+2] \div 16),
       B64Char((src[i+2] % 16) * 4) >>
  ELSE
    << B64Char(src[i+1] \div 4),
       B64Char((src[i+1] % 4) * 16 + src[i+2] \div 16),
       B64Char((src[i+2] % 16) * 4 + src[i+3] \div 64),
       B64Char(src[i+3] % 64) >> \o B64EncodeFrom(src, i + 3)

\* RawURLEncoding.Encode
B64Encode(src) == B64EncodeFrom(src, 0)

RECURSIVE B64DecodeFrom(_, _)
B64DecodeFrom(b64, i) ==
  LET n == Len(b64) - i
      v(k) == B64Val(b64[i+k])
  IN
  IF n <= 0 THEN << >>
  ELSE IF n = 2 THEN << v(1) * 4 + v(2) \div 16 >>
  ELSE IF n = 3 THEN
    << v(1) * 4 + v(2) \div 16, (v(2) % 16) * 16 + v(3) \div 4 >>
  ELSE
    << v(1) * 4 + v(2) \div 16,
       (v(2) % 16) * 16 + v(3) \div 4,
       (v(3) % 4) * 64 + v(4) >> \o B64DecodeFrom(b64, i + 4)

\* whether RawURLEncoding.Decode fails: a byte outside the alphabet, or a
\* length that no encoding has
B64Corrupt(b64) ==
  \/ Len(b64) % 4 = 1
  \/ \E i \in 1..Len(b64) : B64Val(b64[i]) < 0

\* RawURLEncoding.Decode of a well-formed text
B64DecodeBytes(b64) == B64DecodeFrom(b64, 0)

(***************************************************************************)
(* SplitThreeParts                                                         *)
(***************************************************************************)
\* a split that takes a single dot for the first and the last one
SplitThreePartsLoose(jwt) ==
  LET p1 == IndexByte(jwt, 46)
      p2 == LastIndexByte(jwt, 46)
  IN IF p1 < 0 \/ p1 > p2
     THEN [p1 |-> 0, p2 |-> 0, err |-> "ErrThreeParts"]
     ELSE [p1 |-> p1, p2 |-> p2, err |-> "nil"]

\* a SplitThreeParts that returns the position after the last dot
SplitThreePartsPastDot(jwt) ==
  LET p1 == IndexByte(jwt, 46)
      p2 == LastIndexByte(jwt, 46)
  IN IF p1 < 0 \/ p1 >= p2
     THEN [p1 |-> 0, p2 |-> 0, err |-> "ErrThreeParts"]
     ELSE [p1 |-> p1, p2 |-> p2 + 1, err |-> "nil"]

\* a SplitThreeParts that returns the position of the second dot
SplitThreePartsSecondDot(jwt) ==
  LET p1 == IndexByte(jwt, 46)
      rest == IndexByte(Slice(jwt, p1 + 1, Len(jwt)), 46)
  IN IF p1 < 0 \/ rest < 0
     THEN [p1 |-> 0, p2 |-> 0, err |-> "ErrThreeParts"]
     ELSE [p1 |-> p1, p2 |-> p1 + 1 + rest, err |-> "nil"]

SplitThreeParts(jwt) ==
  LET p1 == IndexByte(jwt, 46)
      p2 == LastIndexByte(jwt, 46)
  IN IF p1 < 0 \/ p1 >= p2
     THEN [p1 |-> 0, p2 |-> 0, err |-> "ErrThreeParts"]
     ELSE [p1 |-> p1, p2 |-> p2, err |-> "nil"]

(***************************************************************************)
(* Digests.  The SHA-2 functions are replaced by a stand-in whose state is *)
(* a sequence of n bytes, each updated modulo the prime 251 by an          *)
(* invertible map of its own: inverting one bit of the input always        *)
(* changes the sum (the collision resistance the real functions are        *)
(* trusted for, on single-bit changes).                                    *)
(***************************************************************************)
DigestSize(h) ==
  CASE h = "SHA256" -> HashUnit * 2
    [] h = "SHA384" -> HashUnit * 3
    [] OTHER        -> HashUnit * 4

\* sha256.New(), sha512.New384(), sha512.New(): the initial state
HashNew(h) ==
  SubSeq([i \in 1..DigestSize(h) |-> (DigestSize(h) * 37 + i * 101) % 251], 1, DigestSize(h))

\* hash.Hash.Write of one byte (SubSeq makes the new state a plain tuple)
Absorb(st, b) ==
  SubSeq([i \in 1..Len(st) |-> (st[i] * (31 + 2 * i) + b * (2 * i - 1) + i) % 251], 1, Len(st))

RECURSIVE HashWriteRange(_, _, _, _)
\* the state after data[lo..hi] is written, by halves (the test on Len makes
\* TLC compute the left half before it descends into the right one)
HashWriteRange(st, data, lo, hi) ==
  IF lo > hi THEN st
  ELSE IF lo = hi THEN Absorb(st, data[lo])
  ELSE LET mid == (lo + hi) \div 2
           left == HashWriteRange(st, data, lo, mid)
       IN IF Len(left) = Len(st) THEN HashWriteRange(left, data, mid + 1, hi) ELSE left

\* hash.Hash.Write
HashWrite(st, data) == HashWriteRange(st, data, 1, Len(data))

\* hash.Hash.Sum(nil)
HashSum(st) == st

\* hmac.New(h, key): a digest keyed with key
HmacNew(h, key) == HashWrite(HashNew(h), key)

(***************************************************************************)
(* encoding/json.Unmarshal into AccessClaims, for texts without JSON       *)
(* white space and without escapes in strings.                             *)
(***************************************************************************)
NoTime == -1

ZeroClaims ==
  [exp |-> NoTime, nbf |-> NoTime, iat |-> NoTime, usr |-> << >>,
   grp |-> << >>, org |-> << >>]

IsDigit(c) == c >= 48 /\ c <= 57

At(s, i) == IF i >= 1 /\ i <= Len(s) THEN s[i] ELSE -1

RECURSIVE DigitsEnd(_, _)
\* the index after the run of digits that starts at i
DigitsEnd(s, i) == IF IsDigit(At(s, i)) THEN DigitsEnd(s, i + 1) ELSE i

RECURSIVE DigitsValue(_, _, _, _)
DigitsValue(s, i, j, acc) ==
  IF i >= j THEN acc ELSE DigitsValue(s, i + 1, j, acc * 10 + (s[i] - 48))

RECURSIVE StringEnd(_, _)
\* the index of the quote that closes the string whose text starts at i,
\* 0 when there is none
StringEnd(s, i) ==
  LET c == At(s, i) IN
  IF c = 34 THEN i
  ELSE IF c < 32 \/ c = 92 THEN 0
  ELSE StringEnd(s, i + 1)

BadValue == [ok |-> FALSE, kind |-> "bad", val |-> 0, next |-> 0]

\* an unsigned integer without leading zero
IsNumberText(t) ==
  /\ Len(t) > 0
  /\ \A i \in 1..Len(t) : IsDigit(t[i])
  /\ (Len(t) > 1 => t[1] # 48)

RECURSIVE ParseValue(_, _)
RECURSIVE ParseElems(_, _, _)
\* the elements of an array after its first one: i is at ',' or ']'
ParseElems(s, i, acc) ==
  IF At(s, i) = 93 THEN [ok |-> TRUE, kind |-> "arr", val |-> acc, next |-> i + 1]
  ELSE IF At(s, i) # 44 THEN BadValue
  ELSE LET e == ParseValue(s, i + 1) IN
       IF ~e.ok THEN BadValue
       ELSE ParseElems(s, e.next, Append(acc, [kind |-> e.kind, val |-> e.val]))

\* the JSON value that starts at i
ParseValue(s, i) ==
  LET c == At(s, i) IN
  IF IsDigit(c) THEN
    LET j == DigitsEnd(s, i) IN
    IF c = 48 /\ j > i + 1 THEN BadValue
    ELSE [ok |-> TRUE, kind |-> "num", val |-> DigitsValue(s, i, j, 0), next |-> j]
  ELSE IF c = 34 THEN
    LET j == StringEnd(s, i + 1) IN
    IF j = 0 THEN BadValue
    ELSE [ok |-> TRUE, kind |-> "str", val |-> SubSeq(s, i + 1, j - 1), next |-> j + 1]
  ELSE IF c = 110 THEN
    IF SubSeq(s, i, Min(Len(s), i + 3)) = <<110, 117, 108, 108>>
    THEN [ok |-> TRUE, kind |-> "null", val |-> 0, next |-> i + 4]
    ELSE BadValue
  ELSE IF c = 91 THEN
    IF At(s, i + 1) = 93
    THEN [ok |-> TRUE, kind |-> "arr", val |-> << >>, next |-> i + 2]
    ELSE LET e == ParseValue(s, i + 1) IN
         IF ~e.ok THEN BadValue
         ELSE ParseElems(s, e.next, << [kind |-> e.kind, val |-> e.val] >>)
  ELSE BadValue

\* ASCII lower case: the decoder matches field names without regard to case
Lower(t) == [i \in 1..Len(t) |-> IF t[i] >= 65 /\ t[i] <= 90 THEN t[i] + 32 ELSE t[i]]

IsStringArray(v) == \A i \in 1..Len(v) : v[i].kind = "str"

StringsOf(v) == [i \in 1..Len(v) |-> v[i].val]

\* the field a member sets: [ok, claims]; ok is FALSE on a value of the wrong
\* type (the decoder goes on and reports the error at the end)
SetField(cl, key, e) ==
  LET k == Lower(key)
      date(f) ==
        CASE e.kind = "null" -> [ok |-> TRUE, claims |-> [cl EXCEPT ![f] = NoTime]]
          [] e.kind = "num"  -> [ok |-> TRUE, claims |-> [cl EXCEPT ![f] = e.val]]
          [] e.kind = "str" /\ IsNumberText(e.val) ->
               [ok |-> TRUE,
                claims |-> [cl EXCEPT ![f] = DigitsValue(e.val, 1, Len(e.val) + 1, 0)]]
          [] OTHER -> [ok |-> FALSE, claims |-> cl]
      text(f) ==
        CASE e.kind = "null" -> [ok |-> TRUE, claims |-> cl]
          [] e.kind = "str"  -> [ok |-> TRUE, claims |-> [cl EXCEPT ![f] = e.val]]
          [] OTHER -> [ok |-> FALSE, claims |-> cl]
      list(f) ==
        CASE e.kind = "null" -> [ok |-> TRUE, claims |-> [cl EXCEPT ![f] = << >>]]
          [] e.kind = "arr" /\ IsStringArray(e.val) ->
               [ok |-> TRUE, claims |-> [cl EXCEPT ![f] = StringsOf(e.val)]]
          [] OTHER -> [ok |-> FALSE, claims |-> cl]
  IN CASE k = <<101, 120, 112>> -> date("exp")
       [] k = <<110, 98, 102>>  -> date("nbf")
       [] k = <<105, 97, 116>>  -> date("iat")
       [] k = <<117, 115, 114>> -> text("usr")
       [] k = <<103, 114, 112>> -> list("grp")
       [] k = <<111, 114, 103>> -> list("org")
       [] OTHER -> [ok |-> TRUE, claims |-> cl]

RECURSIVE ParseMembers(_, _, _, _)
\* the members of an object: i is at the quote that opens a name
ParseMembers(s, i, cl, typesOK) ==
  LET bad == [ok |-> FALSE, claims |-> ZeroClaims] IN
  IF At(s, i) # 34 THEN bad
  ELSE LET j == StringEnd(s, i + 1) IN
    IF j = 0 \/ At(s, j + 1) # 58 THEN bad
    ELSE LET e == ParseValue(s, j + 2) IN
      IF ~e.ok THEN bad
      ELSE LET set == SetField(cl, SubSeq(s, i + 1, j - 1), e)
               okNow == typesOK /\ set.ok
           IN IF At(s, e.next) = 44 THEN ParseMembers(s, e.next + 1, set.claims, okNow)
              ELSE IF At(s, e.next) = 125 /\ e.next = Len(s)
                   THEN [ok |-> okNow, claims |-> set.claims]
                   ELSE bad

\* json.Unmarshal(payload, &claims): [ok, claims]
JSONUnmarshal(s) ==
  IF s = <<110, 117, 108, 108>> THEN [ok |-> TRUE, claims |-> ZeroClaims]
  ELSE IF At(s, 1) # 123 THEN [ok |-> FALSE, claims |-> ZeroClaims]
  ELSE IF s = <<123, 125>> THEN [ok |-> TRUE, claims |-> ZeroClaims]
  ELSE ParseMembers(s, 2, ZeroClaims, TRUE)

(***************************************************************************)
(* Claims model: AccessClaims.Valid is jwt.RegisteredClaims.Valid of       *)
(* golang-jwt v4, promoted through the embedded struct.                    *)
(***************************************************************************)
\* an expiry check that still takes the token at the second it expires
VerifyExpiresAtLate(cl, now) == IF cl.exp = NoTime THEN TRUE ELSE now <= cl.exp

\* VerifyExpiresAt(now, false): an absent expiry is not required
VerifyExpiresAt(cl, now) == IF cl.exp = NoTime THEN TRUE ELSE now < cl.exp

VerifyIssuedAt(cl, now) == IF cl.iat = NoTime THEN TRUE ELSE now >= cl.iat

VerifyNotBefore(cl, now) == IF cl.nbf = NoTime THEN TRUE ELSE now >= cl.nbf

\* claims.Valid(): "nil" or the validation error
Valid(cl, now) ==
  IF ~VerifyExpiresAt(cl, now) THEN "ErrTokenExpired"
  ELSE IF ~VerifyIssuedAt(cl, now) THEN "ErrTokenUsedBeforeIssued"
  ELSE IF ~VerifyNotBefore(cl, now) THEN "ErrTokenNotValidYet"
  ELSE "nil"

(***************************************************************************)
(* Key material parser.                                                    *)
(***************************************************************************)
HexVal(c) ==
  CASE c >= 48 /\ c <= 57  -> c - 48
    [] c >= 97 /\ c <= 102 -> c - 87
    [] c >= 65 /\ c <= 70  -> c - 55
    [] OTHER               -> -1

IsHex(t) == Len(t) % 2 = 0 /\ \A i \in 1..Len(t) : HexVal(t[i]) >= 0

HexDecode(t) == [i \in 1..(Len(t) \div 2) |-> HexVal(t[2*i - 1]) * 16 + HexVal(t[2*i])]

HexChar(v) == IF v < 10 THEN v + 48 ELSE v + 87

HexEncode(b) ==
  [i \in 1..(2 * Len(b)) |->
     IF i % 2 = 1 THEN HexChar(b[(i + 1) \div 2] \div 16) ELSE HexChar(b[i \div 2] % 16)]

\* gg.DecodeHexOrB64(keyTxt, size): the text as hexadecimal when that gives
\* size bytes, else as base64 when that gives size bytes, else an error
DecodeHexOrB64(keyTxt, size) ==
  IF IsHex(keyTxt) /\ Len(keyTxt) = 2 * size
  THEN [key |-> HexDecode(keyTxt), err |-> "nil"]
  ELSE IF ~B64Corrupt(keyTxt) /\ DecodedLen(Len(keyTxt)) = size
  THEN [key |-> B64DecodeBytes(keyTxt), err |-> "nil"]
  ELSE [key |-> << >>, err |-> "ErrKeyLength"]

\* the SubjectPublicKeyInfo headers of the key types, up to the key bits
DerP256 == <<48, 89, 48, 19, 6, 7, 42, 134, 72, 206, 61, 2, 1, 6, 8, 42, 134, 72,
             206, 61, 3, 1, 7, 3, 66, 0, 4>>
DerP384 == <<48, 118, 48, 16, 6, 7, 42, 134, 72, 206, 61, 2, 1, 6, 5, 43, 129, 4,
             0, 34, 3, 98, 0, 4>>
DerP521 == <<48, 129, 155, 48, 16, 6, 7, 42, 134, 72, 206, 61, 2, 1, 6, 5, 43,
             129, 4, 0, 35, 3, 129, 134, 0, 4>>
DerEd25519 == <<48, 42, 48, 5, 6, 3, 43, 101, 112, 3, 33, 0>>
DerX25519 == <<48, 42, 48, 5, 6, 3, 43, 101, 110, 3, 33, 0>>

HasPrefix(s, p) == Len(s) >= Len(p) /\ SubSeq(s, 1, Len(p)) = p

\* x509.ParsePKIXPublicKey(der): [kind, key, err]; the stand-in for "the
\* point is on the curve" is that its first byte is not 255
ParsePKIXPublicKey(der) ==
  LET ec(curve, prefix, n) ==
        LET point == SubSeq(der, Len(prefix) + 1, Len(der)) IN
        IF Len(point) = n /\ point[1] # 255
        THEN [kind |-> "ecdsa", curve |-> curve, key |-> point, err |-> "nil"]
        ELSE [kind |-> "none", curve |-> "", key |-> << >>, err |-> "ErrX509"]
      other(kind, prefix) ==
        LET raw == SubSeq(der, Len(prefix) + 1, Len(der)) IN
        IF Len(raw) = 32
        THEN [kind |-> kind, curve |-> "", key |-> raw, err |-> "nil"]
        ELSE [kind |-> "none", curve |-> "", key |-> << >>, err |-> "ErrX509"]
  IN CASE HasPrefix(der, DerP256)    -> ec("P256", DerP256, 64)
       [] HasPrefix(der, DerP384)    -> ec("P384", DerP384, 96)
       [] HasPrefix(der, DerP521)    -> ec("P521", DerP521, 132)
       [] HasPrefix(der, DerEd25519) -> other("ed25519", DerEd25519)
       [] HasPrefix(der, DerX25519)  -> other("ecdh", DerX25519)
       [] OTHER -> [kind |-> "none", curve |-> "", key |-> << >>, err |-> "ErrX509"]

(***************************************************************************)
(* Verifier values.  A pointer to one of the structs HS256 .. ES512 is a   *)
(* record; nil is TRUE for the nil pointer.  An interface value (Verifier, *)
(* Tokenizer) holds a dynamic type and a pointer: it equals nil only when  *)
(* it holds no dynamic type.                                               *)
(***************************************************************************)
NilPtr == [nil |-> TRUE, key |-> << >>, curve |-> "", reuse |-> FALSE]

NewPtr(key, curve, reuse) == [nil |-> FALSE, key |-> key, curve |-> curve, reuse |-> reuse]

NilIface == [itab |-> "nil", ptr |-> NilPtr]

\* the conversion of a pointer of struct type t to an interface type
ToIface(t, ptr) == [itab |-> t, ptr |-> ptr]

\* the outcome of a constructor: the value and the error returned
Ret(val, err) == [val |-> val, err |-> err]

NewBytesKey(keyTxt, size, reuse) ==
  LET d == DecodeHexOrB64(keyTxt, size) IN
  IF d.err # "nil" THEN Ret(NilPtr, d.err)
  ELSE Ret(NewPtr(d.key, "", reuse), "nil")

NewHS256(keyTxt, reuse) == NewBytesKey(keyTxt, 32, reuse)

\* a NewHS384 that asks for the key length of NewHS512
NewHS384Long(keyTxt, reuse) == NewBytesKey(keyTxt, 64, reuse)

NewHS384(keyTxt, reuse) == NewBytesKey(keyTxt, 48, reuse)

\* a NewHS512 that asks for the key length of NewHS256
NewHS512Short(keyTxt, reuse) == NewBytesKey(keyTxt, 32, reuse)

NewHS512(keyTxt, reuse) == NewBytesKey(keyTxt, 64, reuse)

NewEdDSA(keyTxt, reuse) ==
  LET d == DecodeHexOrB64(keyTxt, 44)
      pub == ParsePKIXPublicKey(d.key)
  IN IF d.err # "nil" THEN Ret(NilPtr, d.err)
     ELSE IF pub.err # "nil" THEN Ret(NilPtr, pub.err)
     ELSE IF pub.kind # "ed25519" THEN Ret(NilPtr, "ErrECDSAPubKey")
     ELSE Ret(NewPtr(pub.key, "", reuse), "nil")

NewECDSA(keyTxt, size, reuse) ==
  LET d == DecodeHexOrB64(keyTxt, size)
      pub == ParsePKIXPublicKey(d.key)
  IN IF d.err # "nil" THEN Ret(NilPtr, d.err)
     ELSE IF pub.err # "nil" THEN Ret(NilPtr, pub.err)
     ELSE IF pub.kind # "ecdsa" THEN Ret(NilPtr, "ErrECDSAPubKey")
     ELSE Ret(NewPtr(pub.key, pub.curve, reuse), "nil")

NewES256(keyTxt, reuse) == NewECDSA(keyTxt, 91, reuse)

NewES384(keyTxt, reuse) == NewECDSA(keyTxt, 120, reuse)

NewES512(keyTxt, reuse) == NewECDSA(keyTxt, 158, reuse)

\* NewHMAC: the first of HS256, HS384, HS512 that takes the key
\* a NewHMAC that tries the longest key first
NewHMACLongestFirst(keyTxt, reuse) ==
  IF IndexByte(keyTxt, 58) >= 0 THEN Ret(NilIface, "ErrColumnInKey")
  ELSE IF NewHS512(keyTxt, reuse).err = "nil"
       THEN Ret(ToIface("HS512", NewHS512(keyTxt, reuse).val), "nil")
  ELSE IF NewHS384(keyTxt, reuse).err = "nil"
       THEN Ret(ToIface("HS384", NewHS384(keyTxt, reuse).val), "nil")
  ELSE IF NewHS256(keyTxt, reuse).err = "nil"
       THEN Ret(ToIface("HS256", NewHS256(keyTxt, reuse).val), "nil")
  ELSE Ret(NilIface, "ErrHMACKey")

NewHMAC(keyTxt, reuse) ==
  IF IndexByte(keyTxt, 58) >= 0 THEN Ret(NilIface, "ErrColumnInKey")
  ELSE IF NewHS256(keyTxt, reuse).err = "nil"
       THEN Ret(ToIface("HS256", NewHS256(keyTxt, reuse).val), "nil")
  ELSE IF NewHS384(keyTxt, reuse).err = "nil"
       THEN Ret(ToIface("HS384", NewHS384(keyTxt, reuse).val), "nil")
  ELSE IF NewHS512(keyTxt, reuse).err = "nil"
       THEN Ret(ToIface("HS512", NewHS512(keyTxt, reuse).val), "nil")
  ELSE Ret(NilIface, "ErrHMACKey")

\* strings.ToUpper on ASCII
ToUpper(t) == [i \in 1..Len(t) |-> IF t[i] >= 97 /\ t[i] <= 122 THEN t[i] - 32 ELSE t[i]]

\* "return NewXxx(keyTxt, reuse)" in a function that returns (Verifier, error):
\* the pointer returned, nil or not, is converted to the interface type
ReturnAs(t, r) == Ret(ToIface(t, r.val), r.err)

\* a NewVerifier that hands every algorithm it does not implement to NewHMAC
NewVerifierFallThrough(algoKey, reuse) ==
  LET colon == IndexByte(algoKey, 58)
      algo == ToUpper(SubSeq(algoKey, 1, colon))
      keyTxt == SubSeq(algoKey, colon + 2, Len(algoKey))
  IN IF colon < 0 THEN NewHMAC(algoKey, reuse)
     ELSE CASE algo = <<72, 83, 50, 53, 54>> -> ReturnAs("HS256", NewHS256(keyTxt, reuse))
            [] algo = <<72, 83, 51, 56, 52>> -> ReturnAs("HS384", NewHS384(keyTxt, reuse))
            [] algo = <<72, 83, 53, 49, 50>> -> ReturnAs("HS512", NewHS512(keyTxt, reuse))
            [] algo = <<69, 83, 50, 53, 54>> -> ReturnAs("ES256", NewES256(keyTxt, reuse))
            [] algo = <<69, 83, 51, 56, 52>> -> ReturnAs("ES384", NewES384(keyTxt, reuse))
            [] algo = <<69, 83, 53, 49, 50>> -> ReturnAs("ES512", NewES512(keyTxt, reuse))
            [] algo = <<69, 68, 68, 83, 65>> -> ReturnAs("EdDSA", NewEdDSA(keyTxt, reuse))
            [] OTHER -> NewHMAC(keyTxt, reuse)

NewVerifier(algoKey, reuse) ==
  LET colon == IndexByte(algoKey, 58)
      algo == ToUpper(SubSeq(algoKey, 1, colon))
      keyTxt == SubSeq(algoKey, colon + 2, Len(algoKey))
  IN IF colon < 0 THEN NewHMAC(algoKey, reuse)
     ELSE CASE algo = << >> \/ algo = <<72, 77, 65, 67>> -> NewHMAC(keyTxt, reuse)
            [] algo = <<72, 83, 50, 53, 54>> -> ReturnAs("HS256", NewHS256(keyTxt, reuse))
            [] algo = <<72, 83, 51, 56, 52>> -> ReturnAs("HS384", NewHS384(keyTxt, reuse))
            [] algo = <<72, 83, 53, 49, 50>> -> ReturnAs("HS512", NewHS512(keyTxt, reuse))
            [] algo \in {<<82, 83, 50, 53, 54>>, <<82, 83, 51, 56, 52>>, <<82, 83, 53, 49, 50>>}
                 -> Ret(NilIface, "ErrNotSupported")
            [] algo \in {<<80, 83, 50, 53, 54>>, <<80, 83, 51, 56, 52>>, <<80, 83, 53, 49, 50>>}
                 -> Ret(NilIface, "ErrNotSupported")
            [] algo = <<69, 83, 50, 53, 54>> -> ReturnAs("ES256", NewES256(keyTxt, reuse))
            [] algo = <<69, 83, 51, 56, 52>> -> ReturnAs("ES384", NewES384(keyTxt, reuse))
            [] algo = <<69, 83, 53, 49, 50>> -> ReturnAs("ES512", NewES512(keyTxt, reuse))
            [] algo = <<69, 68, 68, 83, 65>> -> ReturnAs("EdDSA", NewEdDSA(keyTxt, reuse))
            [] OTHER -> Ret(NilIface, "ErrUnexpectedAlgo")

\* a Reuse that answers the opposite
ReuseInverted(v) == ~v.ptr.reuse

\* Base.Reuse
Reuse(v) == v.ptr.reuse

(***************************************************************************)
(* Signature engines.                                                      *)
(***************************************************************************)
IsHMAC(t) == t \in {"HS256", "HS384", "HS512"}

IsECDSA(t) == t \in {"ES256", "ES384", "ES512"}

\* the hash each Verify and Sign method creates (hmac.New(sha256.New, ..),
\* crypto.SHA256.New(), ...)
HashOf(t) ==
  CASE t \in {"HS256", "ES256"} -> "SHA256"
    [] t \in {"HS384", "ES384"} -> "SHA384"
    [] OTHER                    -> "SHA512"

\* sign(digest, headerPayload) on a digest just created
sign(digest, headerPayload) == B64Encode(HashSum(HashWrite(digest, headerPayload)))

\* a Sign that uses SHA-256 in the three tokenizers
SignSha256(v, hp) == sign(HmacNew("SHA256", v.ptr.key), hp)

\* v.Sign(hp) of HS256, HS384, HS512
Sign(v, hp) == sign(HmacNew(HashOf(v.itab), v.ptr.key), hp)

\* a comparison that stops one byte short
BytesEqualButLast(a, b) ==
  Len(a) = Len(b) /\ SubSeq(a, 1, Len(a) - 1) = SubSeq(b, 1, Len(b) - 1)

\* bytes.Equal
BytesEqual(a, b) == a = b

\* verify(v, headerPayload, jwtSignature) of the HMAC tokenizers
verify(v, headerPayload, jwtSignature) == BytesEqual(Sign(v, headerPayload), jwtSignature)

\* big.Int.SetBytes: the big-endian number, that is the bytes without their
\* leading zeros
SetBytes(b) ==
  IF \A i \in 1..Len(b) : b[i] = 0 THEN << >>
  ELSE SubSeq(b, CHOOSE i \in 1..Len(b) : b[i] # 0 /\ \A j \in 1..(i-1) : b[j] = 0, Len(b))

PadTo(x, n) == Rep(0, n - Len(x)) \o x

Complement(x) == [i \in 1..Len(x) |-> 255 - x[i]]

\* Stand-in for the curves: scalars have n bytes and the group order is
\* 2^(8n) - 1, so that order - s is the complement of s.  For each r there is
\* one s (and its negation order - s) that satisfies the equation.
ScalarOK(x, n) == x # << >> /\ Len(x) <= n /\ PadTo(x, n) # Rep(255, n)

EcdsaS(pub, hash, r) ==
  HashSum(HashWrite(HashWrite(HashWrite(HashNew("SHA512"), pub), hash), r))

\* ecdsa.Verify(pub, hash, r, s): no low-s rule, (r, s) and (r, order - s) both pass
EcdsaVerify(pub, hash, r, s) ==
  LET n == Len(hash)
      want == SubSeq(EcdsaS(pub, hash, PadTo(r, n)), 1, n)
  IN /\ ScalarOK(r, n)
     /\ ScalarOK(s, n)
     /\ (PadTo(s, n) = want \/ PadTo(s, n) = Complement(want))

\* Stand-in for Ed25519: a signature is R || S of EdHalf bytes each, and S is
\* determined by the key, the message and R
EdHalf == HashUnit * 2

EdS(pub, msg, R) ==
  SubSeq(HashSum(HashWrite(HashWrite(HashWrite(HashNew("SHA512"), pub), R), msg)), 1, EdHalf)

\* ed25519.Verify(pub, msg, sig)
Ed25519Verify(pub, msg, sig) ==
  /\ Len(sig) = 2 * EdHalf
  /\ SubSeq(sig, EdHalf + 1, 2 * EdHalf) = EdS(pub, msg, SubSeq(sig, 1, EdHalf))

\* the end of (v *ECDSA).verify: r and s are the halves of the decoded
\* signature, whatever its length, and h is digest.Sum(nil)
EcdsaVerifyHalves(v, h, sigBin) ==
  LET r == SetBytes(Slice(sigBin, 0, Len(sigBin) \div 2))
      s == SetBytes(Slice(sigBin, Len(sigBin) \div 2, Len(sigBin)))
  IN EcdsaVerify(v.ptr.key, h, r, s)

\* (v *ECDSA).verify after the signature is decoded: sigBin is the decoded bytes
EcdsaVerifyDecoded(v, digest, headerPayload, sigBin) ==
  EcdsaVerifyHalves(v, HashSum(HashWrite(digest, headerPayload)), sigBin)

\* v.Verify(hp, sig) as a function of its arguments, for every algorithm
Verify(v, hp, sig) ==
  IF IsHMAC(v.itab) THEN verify(v, hp, sig)
  ELSE IF B64Corrupt(sig) THEN FALSE
  ELSE IF IsECDSA(v.itab)
       THEN EcdsaVerifyDecoded(v, HashNew(HashOf(v.itab)), hp, B64DecodeBytes(sig))
       ELSE Ed25519Verify(v.ptr.key, hp, B64DecodeBytes(sig))

(***************************************************************************)
(* Token issuance.                                                         *)
(***************************************************************************)
RECURSIVE NumText(_)
\* the decimal text of a natural number
NumText(n) == IF n < 10 THEN << 48 + n >> ELSE NumText(n \div 10) \o << 48 + (n % 10) >>

Quoted(t) == <<34>> \o t \o <<34>>

RECURSIVE QuotedList(_, _)
QuotedList(l, i) ==
  IF i > Len(l) THEN << >>
  ELSE (IF i > 1 THEN <<44>> ELSE << >>) \o Quoted(l[i]) \o QuotedList(l, i + 1)

\* json.Marshal of AccessClaims: exp, nbf, iat (of the embedded
\* RegisteredClaims), usr, grp, org, each omitted when empty
JSONMarshal(cl) ==
  LET date(name, t) == IF t = NoTime THEN << >> ELSE << Quoted(name) \o <<58>> \o NumText(t) >>
      members ==
        date(<<101, 120, 112>>, cl.exp) \o date(<<110, 98, 102>>, cl.nbf)
        \o date(<<105, 97, 116>>, cl.iat)
        \o (IF cl.usr = << >> THEN << >> ELSE << Quoted(<<117, 115, 114>>) \o <<58>> \o Quoted(cl.usr) >>)
        \o (IF cl.grp = << >> THEN << >>
            ELSE << Quoted(<<103, 114, 112>>) \o <<58, 91>> \o QuotedList(cl.grp, 1) \o <<93>> >>)
        \o (IF cl.org = << >> THEN << >>
            ELSE << Quoted(<<111, 114, 103>>) \o <<58, 91>> \o QuotedList(cl.org, 1) \o <<93>> >>)
      join[i \in 0..Len(members)] ==
        IF i = 0 THEN << >>
        ELSE join[i - 1] \o (IF i > 1 THEN <<44>> ELSE << >>) \o members[i]
  IN <<123>> \o join[Len(members)] \o <<125>>

\* the signature segment a signer holding the key of v makes for hp; nonce
\* selects the r of an ECDSA signature (R of an EdDSA one is derived)
SignatureFor(v, hp, nonce) ==
  IF IsHMAC(v.itab) THEN Sign(v, hp)
  ELSE IF IsECDSA(v.itab) THEN
    LET h == HashSum(HashWrite(HashNew(HashOf(v.itab)), hp))
        r == PadTo(<<nonce>>, Len(h))
    IN B64Encode(r \o SubSeq(EcdsaS(v.ptr.key, h, r), 1, Len(h)))
  ELSE
    LET R == SubSeq(HashSum(HashWrite(HashNew("SHA384"), hp)), 1, EdHalf)
    IN B64Encode(R \o EdS(v.ptr.key, hp, R))

\* the compact token: header "." payload "." signature, all base64url
SignedToken(v, header, payloadTxt, nonce) ==
  LET hp == B64Encode(header) \o <<46>> \o B64Encode(payloadTxt)
  IN hp \o <<46>> \o SignatureFor(v, hp, nonce)

\* newAccessClaims
newAccessClaims(username, groups, orgs, expiry) ==
  [exp |-> expiry, nbf |-> NoTime, iat |-> NoTime, usr |-> username,
   grp |-> groups, org |-> orgs]

\* GenAccessToken(timeout, maxTTL, user, groups, orgs) at time now
GenAccessToken(v, timeout, user, groups, orgs, now) ==
  SignedToken(v, <<123, 125>>, JSONMarshal(newAccessClaims(user, groups, orgs, now + timeout)), 1)

(***************************************************************************)
(* B64Decode on a buffer: the segment buf[off : off+n] is decoded, into a  *)
(* fresh slice or, with reuse, over the segment itself.                    *)
(***************************************************************************)
\* buf with the bytes out written from offset off on
WriteAt(buf, off, out) ==
  [i \in 1..Len(buf) |-> IF i > off /\ i <= off + Len(out) THEN out[i - off] ELSE buf[i]]

\* the 4-character groups of b64 that precede its first byte outside the alphabet
CleanPrefix(b64) ==
  LET bad == {i \in 1..Len(b64) : B64Val(b64[i]) < 0}
      first == IF bad = {} THEN Len(b64) + 1 ELSE CHOOSE i \in bad : \A j \in bad : i <= j
  IN SubSeq(b64, 1, ((first - 1) \div 4) * 4)

\* a B64Decode that, with reuse, decodes to the start of the buffer that holds
\* its input
B64DecodeAtStart(buf, off, n, reuse, partial) ==
  LET b64 == Slice(buf, off, off + n) IN
  IF B64Corrupt(b64)
  THEN [out |-> << >>, err |-> "ErrB64", buf |-> buf]
  ELSE [out |-> B64DecodeBytes(b64), err |-> "nil",
        buf |-> IF reuse THEN WriteAt(buf, 0, B64DecodeBytes(b64)) ELSE buf]

\* a B64Decode that decodes over its input whatever reuse is
B64DecodeInPlace(buf, off, n, reuse, partial) ==
  LET b64 == Slice(buf, off, off + n) IN
  IF B64Corrupt(b64)
  THEN [out |-> << >>, err |-> "ErrB64", buf |-> buf]
  ELSE [out |-> B64DecodeBytes(b64), err |-> "nil",
        buf |-> WriteAt(buf, off, B64DecodeBytes(b64))]

\* B64Decode(buf[off : off+n], reuse): [out, err, buf].  When the decoder
\* fails on a reused buffer it may have written what it decoded before it
\* failed (partial) or nothing.
B64Decode(buf, off, n, reuse, partial) ==
  LET b64 == Slice(buf, off, off + n) IN
  IF B64Corrupt(b64)
  THEN [out |-> << >>, err |-> "ErrB64",
        buf |-> IF reuse /\ partial
                THEN WriteAt(buf, off, B64DecodeBytes(CleanPrefix(b64)))
                ELSE buf]
  ELSE [out |-> B64DecodeBytes(b64), err |-> "nil",
        buf |-> IF reuse THEN WriteAt(buf, off, B64DecodeBytes(b64)) ELSE buf]

(***************************************************************************)
(* The inputs: verifier descriptors and tokens.                            *)
(***************************************************************************)
KeyBytes(n) == [i \in 1..n |-> (7 * i) % 256]

\* an uncompressed curve point of n bytes: 0x04 is in the DER prefix
PointBytes(n) == [i \in 1..n |-> (11 * i + 3) % 255]

Algo(name) == name \o <<58>>

\* descriptors the constructors take
GoodDescriptors ==
  { HexEncode(KeyBytes(32)),
    B64Encode(KeyBytes(48)),
    Algo(<<72, 83, 50, 53, 54>>) \o B64Encode(KeyBytes(32)),
    Algo(<<72, 83, 51, 56, 52>>) \o B64Encode(KeyBytes(48)),
    Algo(<<104, 115, 53, 49, 50>>) \o HexEncode(KeyBytes(64)),
    Algo(<<72, 77, 65, 67>>) \o B64Encode(KeyBytes(64)),
    Algo(<<69, 83, 50, 53, 54>>) \o HexEncode(DerP256 \o PointBytes(64)),
    Algo(<<101, 115, 51, 56, 52>>) \o B64Encode(DerP384 \o PointBytes(96)),
    Algo(<<69, 83, 53, 49, 50>>) \o B64Encode(DerP521 \o PointBytes(132)),
    Algo(<<69, 100, 68, 83, 65>>) \o HexEncode(DerEd25519 \o KeyBytes(32)) }

\* "https://lm4.eu/quid/v1?ns=foobar", the Quid URL of the documentation
QuidURL ==
  <<104, 116, 116, 112, 115, 58, 47, 47, 108, 109, 52, 46, 101, 117, 47,
     113, 117, 105, 100, 47, 118, 49, 63, 110, 115, 61, 102, 111, 111,
     98, 97, 114>>

\* descriptors the constructors refuse
BadDescriptors ==
  { <<122, 122>>,
    QuidURL,
    Algo(<<72, 83, 50, 53, 54>>) \o <<122, 122>>,
    Algo(<<72, 83, 53, 49, 50>>) \o HexEncode(KeyBytes(32)),
    Algo(<<72, 77, 65, 67>>) \o <<97, 58, 98>>,
    Algo(<<82, 83, 50, 53, 54>>) \o HexEncode(KeyBytes(32)),
    Algo(<<80, 83, 51, 56, 52>>) \o HexEncode(KeyBytes(32)),
    Algo(<<70, 79, 79>>) \o HexEncode(KeyBytes(32)),
    Algo(<<114, 115, 51, 56, 52>>) \o HexEncode(KeyBytes(32)),
    Algo(<<82, 115, 53, 49, 50>>) \o B64Encode(KeyBytes(48)),
    Algo(<<112, 115, 50, 53, 54>>) \o HexEncode(KeyBytes(32)),
    Algo(<<112, 83, 53, 49, 50>>) \o B64Encode(KeyBytes(64)),
    Algo(<<104, 115, 50, 53, 55>>) \o HexEncode(KeyBytes(32)),
    Algo(<<69, 83, 50, 53, 54>>) \o HexEncode(DerP256 \o Rep(255, 64)),
    Algo(<<69, 83, 51, 56, 52>>) \o <<122, 122>>,
    Algo(<<69, 83, 50, 53, 54>>) \o HexEncode(KeyBytes(91)),
    Algo(<<69, 100, 68, 83, 65>>) \o HexEncode(DerX25519 \o KeyBytes(32)),
    Algo(<<69, 100, 68, 83, 65>>) \o <<122, 122>> }

Descriptors == GoodDescriptors \cup BadDescriptors

Header == <<123, 125>>

StdClaims == newAccessClaims(<<106>>, << <<103>> >>, << >>, 2)

\* payload texts: with exp, without, with exp 0 or null, "null", truncated,
\* with nbf or iat ahead of exp, with a string for exp, and not an object
PayloadTexts ==
  { JSONMarshal(StdClaims),
    JSONMarshal([StdClaims EXCEPT !.exp = NoTime]),
    <<123, 125>>,
    <<123, 34, 101, 120, 112, 34, 58, 48, 125>>,
    <<123, 34, 101, 120, 112, 34, 58, 110, 117, 108, 108, 125>>,
    <<110, 117, 108, 108>>,
    <<123, 34, 101, 120, 112, 34, 58, 50>>,
    JSONMarshal([ZeroClaims EXCEPT !.exp = 3, !.nbf = 2]),
    JSONMarshal([ZeroClaims EXCEPT !.exp = 3, !.iat = 1]),
    <<123, 34, 101, 120, 112, 34, 58, 34, 50, 34, 125>>,
    <<53>> }

\* the tokens presented to a verifier: signed ones, one per payload text, and
\* what an attacker or a broken client makes of the standard one; the last
\* four have a signature segment that is empty, of one character, of one
\* byte, and not base64
Tokens(v) ==
  LET std == SignedToken(v, Header, JSONMarshal(StdClaims), 1)
      p1 == IndexByte(std, 46)
      p2 == LastIndexByte(std, 46)
      hp == Slice(std, 0, p2)
      sigBin == B64DecodeBytes(Slice(std, p2 + 1, Len(std)))
      half == Len(sigBin) \div 2
      r == Slice(sigBin, 0, half)
      s == Slice(sigBin, half, Len(sigBin))
      old == SignedToken(v, Header, <<123, 34, 101, 120, 112, 34, 58, 48, 125>>, 1)
      hp3 == B64Encode(Header) \o <<46>> \o hp
      hpBad == B64Encode(Header) \o <<46, 101, 51, 36>>
      hpOdd == B64Encode(Header) \o <<46, 101>>
  IN { SignedToken(v, Header, txt, 1) : txt \in PayloadTexts }
     \cup { FlipAt(std, Len(std), 0), FlipAt(std, Len(std), 3), FlipAt(std, p2 + 2, 0),
            FlipAt(std, 1, 0), FlipAt(std, p1 + 3, 1),
            FlipAt(old, Len(old) - 1, 2),
            << >>, <<46>>, <<46, 46>>,
            SelectSeq(std, LAMBDA c : c # 46),
            hp \o Slice(std, p2 + 1, Len(std)),
            B64Encode(Header) \o <<46>> \o std,
            hp3 \o <<46>> \o SignatureFor(v, hp3, 1),
            hpBad \o <<46>> \o SignatureFor(v, hpBad, 1),
            hpOdd \o <<46>> \o SignatureFor(v, hpOdd, 1),
            hp \o <<46>> \o B64Encode(<<0>> \o r \o <<0>> \o s),
            hp \o <<46>> \o B64Encode(r \o Complement(s)),
            hp \o <<46>> \o SignatureFor(v, hp, 2),
            hp \o <<46>>, hp \o <<46, 101>>, hp \o <<46, 101, 119>>, hp \o <<46, 36, 36>> }

(***************************************************************************)
(* The state: one verifier, the clock, and the calls in progress.          *)
(***************************************************************************)
VARIABLES
  now,      \* time.Now(), in seconds
  made,     \* the constructor call: its arguments, the value and error returned
  v,        \* the Verifier as it is now (made.val when it was returned)
  active,   \* the goroutines that call the verifier
  inputs,   \* the family of tokens they present: "all", "few" or "flips"
  call,     \* per goroutine: the call in progress, its buffers and locals
  digest,   \* the hash instances: their internal state
  web,      \* the access controller, the request it serves and its response
  muter,    \* the Muter, the last call made on it and what it returned
  md        \* md-code: the file system, the configuration and the extraction

vars == <<now, made, v, active, inputs, call, digest, web, muter, md>>

Goroutines == {1, 2}

\* what a call returns: (pointer to claims or nil, error), a boolean, bytes
Result(some, claims, err) ==
  [some |-> some, claims |-> IF some THEN claims ELSE ZeroClaims, err |-> err,
   ok |-> FALSE, out |-> << >>]

NoResult == Result(FALSE, ZeroClaims, "nil")

Idle ==
  [op |-> "idle", pc |-> "idle", arg |-> << >>, buf |-> << >>, p1 |-> 0, p2 |-> 0,
   reuse |-> FALSE, sigBin |-> << >>, ok |-> FALSE, payload |-> << >>,
   claims |-> ZeroClaims, trace |-> << >>, at |-> 0, issued |-> FALSE, during |-> FALSE,
   want |-> ZeroClaims, ret |-> NoResult]

\* no cookie in the request
NoCookie == [present |-> FALSE, plan |-> << >>, signed |-> FALSE, exp |-> 0]

\* the downstream handler of the test before a request: called false, perm 0
NoCall == [calls |-> 0, perm |-> 0]

\* a request context without permission
NoCtx == [has |-> FALSE, perm |-> 0]

\* no access controller built and no request received
NoWeb ==
  [built |-> "no", permissions |-> << >>,
   ck |-> [plans |-> << >>, perms |-> << >>, cookies |-> << >>],
   pc |-> "none", mw |-> "none", cookie |-> NoCookie, at |-> 0,
   next |-> NoCall, ctx |-> NoCtx, setCookies |-> << >>, rejected |-> FALSE,
   served |-> 0]

\* the zero value of Muter
ZeroMuter ==
  [quietTime |-> NoTime, NoAlertDuration |-> 0, Threshold |-> 0, RemindMuteState |-> 0,
   counter |-> 0, dropped |-> 0, muted |-> FALSE]

\* no Muter made and no call on it
NoMuter ==
  [made |-> FALSE, m |-> ZeroMuter, before |-> ZeroMuter, op |-> "none", at |-> 0,
   ok |-> FALSE, dropped |-> 0, time |-> NoTime,
   sinceMuted |-> 0, incSinceQuiet |-> FALSE, runStart |-> NoTime]

\* md-code not started
NoMd == [pc |-> "none"]

\* the state once NewVerifier(algoKey, reuse) has returned, for some descriptor
\* among ds, with the goroutines ps about to use the verifier at time t0 on
\* the tokens of family fam
Constructed(ds, ps, t0, fam) ==
  /\ now = t0
  /\ \E algoKey \in ds, reuse \in BOOLEAN :
       made = [algoKey |-> algoKey, reuse |-> reuse,
               val |-> NewVerifier(algoKey, reuse).val,
               err |-> NewVerifier(algoKey, reuse).err]
  /\ v = made.val
  /\ active = ps
  /\ inputs = fam
  /\ call = [p \in Goroutines |-> Idle]
  /\ digest = [p \in Goroutines |-> << >>]
  /\ web = NoWeb
  /\ muter = NoMuter
  /\ md = NoMd

\* one goroutine, any descriptor
Init == Constructed(Descriptors, {1}, 0, "all")

\* two goroutines on one verifier, one descriptor per family of algorithms
ConcDescriptors ==
  { HexEncode(KeyBytes(32)),
    Algo(<<69, 83, 50, 53, 54>>) \o HexEncode(DerP256 \o PointBytes(64)),
    Algo(<<69, 100, 68, 83, 65>>) \o HexEncode(DerEd25519 \o KeyBytes(32)) }

InitConc == Constructed(ConcDescriptors, Goroutines, 1, "few")

\* one goroutine, every algorithm, a valid token with each of its bits inverted
TamperDescriptors ==
  { d \in GoodDescriptors : IndexByte(d, 58) >= 0 /\ ToUpper(SubSeq(d, 1, 2)) # <<72, 77>> }

InitTamper == Constructed(TamperDescriptors, {1}, 0, "flips")

\* a caller uses the verifier only when the constructor returned no error
Usable == made.err = "nil"

Ready(p) == p \in active /\ Usable /\ call[p].pc = "idle"

AtPc(p, pc) == p \in active /\ call[p].pc = pc

\* the longest token lifetime asked of GenAccessToken
MaxTimeout == 2

\* with two goroutines: a valid token, one with a bad signature, an expired one
ConcTokens(w) ==
  LET std == SignedToken(w, Header, JSONMarshal(StdClaims), 1)
  IN { std, FlipAt(std, Len(std) - 1, 0),
       SignedToken(w, Header, <<123, 34, 101, 120, 112, 34, 58, 48, 125>>, 1) }

\* a valid token; the same with one bit inverted, for each bit of its header,
\* payload and signature segments and of its first dot; and the same with
\* other signatures
TamperTokens(w) ==
  LET std == SignedToken(w, Header, JSONMarshal(StdClaims), 1)
      p2 == LastIndexByte(std, 46)
      hp == Slice(std, 0, p2)
      sigBin == B64DecodeBytes(Slice(std, p2 + 1, Len(std)))
      r == Slice(sigBin, 0, Len(sigBin) \div 2)
      s == Slice(sigBin, Len(sigBin) \div 2, Len(sigBin))
  IN { std }
     \cup { FlipAt(std, i, k) : i \in (1..Len(std)) \ {p2 + 1}, k \in 0..7 }
     \cup { hp \o <<46>> \o B64Encode(<<0>> \o r \o <<0>> \o s),
            hp \o <<46>> \o B64Encode(r \o Complement(s)),
            hp \o <<46>> \o SignatureFor(w, hp, 2) }

\* the tokens the callers present
Presented(w) ==
  CASE inputs = "all" -> Tokens(w)
    [] inputs = "few" -> ConcTokens(w)
    [] OTHER          -> TamperTokens(w)

\* the header "." payload texts given to Sign
HeaderPayloads ==
  { B64Encode(Header) \o <<46>> \o B64Encode(JSONMarshal(StdClaims)), B64Encode(Header), << >> }

\* the payload segments given to AccessClaimsFromBase64
PayloadSegments ==
  IF inputs = "all"
  THEN { B64Encode(txt) : txt \in PayloadTexts } \cup { <<101, 51, 36>>, <<101>> }
  ELSE { B64Encode(<<123, 34, 101, 120, 112, 34, 58, 48, 125>>), <<101, 51, 36>> }

\* one hash instance kept in the verifier and used by every call
DigestShared(p) == 1

\* the hash instance a call works on: each call creates its own
DigestSlot(p) == p

\* the first step of v.Verify: the HMAC and ECDSA methods create a hash,
\* the EdDSA method goes straight to the signature
VerifyEntry(t) == IF t = "EdDSA" THEN "sigdec" ELSE "new"

\* a claims[T] that decodes the payload whatever Verify returned
claimsNextUnchecked(stage, failed) ==
  CASE stage = "split"  -> IF failed THEN "return" ELSE "verify"
    [] stage = "verify" -> "decode"
    [] OTHER            -> "return"

\* claims[T]: what follows a stage, given whether the stage failed
claimsNext(stage, failed) ==
  CASE stage = "split"  -> IF failed THEN "return" ELSE "verify"
    [] stage = "verify" -> IF failed THEN "return" ELSE "decode"
    [] OTHER            -> "return"

\* a claims[T] that hands on what AccessClaimsFromBase64 returned
claimsReturnBoth(r) == r

\* the end of claims[T]: no claims are returned with an error
claimsReturn(r) == IF r.err # "nil" THEN Result(FALSE, ZeroClaims, r.err) ELSE r

\* the call record once v.Verify has returned ok; claims[T] then takes
\* accessToken[p1+1 : p2]
AfterVerify(c, ok) ==
  IF c.op = "Verify"
  THEN [c EXCEPT !.pc = "done", !.ok = ok, !.ret = [NoResult EXCEPT !.ok = ok]]
  ELSE IF claimsNext("verify", ~ok) = "return"
       THEN [c EXCEPT !.pc = "done", !.ok = ok,
                      !.ret = Result(FALSE, ZeroClaims, "ErrJWTSignature")]
       ELSE [c EXCEPT !.ok = ok,
                      !.pc = IF SliceOK(c.p1 + 1, c.p2, Len(c.buf)) THEN "decode" ELSE "panic"]

Begin(op, pc, buf, p1, p2) ==
  [Idle EXCEPT !.op = op, !.pc = pc, !.arg = buf, !.buf = buf, !.p1 = p1, !.p2 = p2]

\* v.Claims(accessToken) is called
CallClaims(p) ==
  /\ Ready(p)
  /\ \E tok \in Presented(v) : call' = [call EXCEPT ![p] = Begin("Claims", "split", tok, 0, 0)]
  /\ UNCHANGED <<now, made, v, active, inputs, digest, web, muter, md>>

\* v.Verify(headerPayload, signature) is called on the two sides of the last dot
CallVerify(p) ==
  /\ Ready(p)
  /\ \E tok \in Presented(v) :
       /\ LastIndexByte(tok, 46) >= 0
       /\ call' = [call EXCEPT ![p] =
            Begin("Verify", VerifyEntry(v.itab), tok, 0, LastIndexByte(tok, 46))]
  /\ UNCHANGED <<now, made, v, active, inputs, digest, web, muter, md>>

\* v.Sign(headerPayload) is called (the HMAC tokenizers only)
CallSign(p) ==
  /\ Ready(p)
  /\ IsHMAC(v.itab)
  /\ \E hp \in HeaderPayloads :
       call' = [call EXCEPT ![p] = Begin("Sign", "new", hp, 0, Len(hp))]
  /\ UNCHANGED <<now, made, v, active, inputs, digest, web, muter, md>>

\* AccessClaimsFromBase64(b64, reuse) is called
CallAccessClaimsFromBase64(p) ==
  /\ Ready(p)
  /\ \E b64 \in PayloadSegments, reuse \in BOOLEAN :
       call' = [call EXCEPT ![p] =
         [Begin("AccessClaimsFromBase64", "decode", b64, -1, Len(b64)) EXCEPT !.reuse = reuse]]
  /\ UNCHANGED <<now, made, v, active, inputs, digest, web, muter, md>>

\* GenAccessToken(timeout, maxTTL, user, groups, orgs) is called and returns
CallGenAccessToken(p) ==
  /\ Ready(p)
  /\ \E timeout \in 1..MaxTimeout :
       call' = [call EXCEPT ![p] =
         [Idle EXCEPT !.op = "GenAccessToken", !.pc = "done", !.at = now,
            !.want = newAccessClaims(<<106>>, << <<103>> >>, << >>, now + timeout),
            !.ret = [NoResult EXCEPT
                       !.out = GenAccessToken(v, timeout, <<106>>, << <<103>> >>, << >>, now)]]]
  /\ UNCHANGED <<now, made, v, active, inputs, digest, web, muter, md>>

\* v.Reuse() is called and returns
CallReuse(p) ==
  /\ Ready(p)
  /\ call' = [call EXCEPT ![p] =
       [Idle EXCEPT !.op = "Reuse", !.pc = "done", !.ret = [NoResult EXCEPT !.ok = Reuse(v)]]]
  /\ UNCHANGED <<now, made, v, active, inputs, digest, web, muter, md>>

\* the token GenAccessToken returned is given to v.Claims
PresentIssued(p) ==
  /\ AtPc(p, "done")
  /\ call[p].op = "GenAccessToken"
  /\ call' = [call EXCEPT ![p] =
       [Begin("Claims", "split", call[p].ret.out, 0, 0) EXCEPT
          !.issued = TRUE, !.want = call[p].want]]
  /\ UNCHANGED <<now, made, v, active, inputs, digest, web, muter, md>>

\* goroutine q holds a hash instance it has yet to read the sum of
Hashing(q) == q \in active /\ v.itab # "EdDSA" /\ call[q].pc \in {"sigdec", "write", "sum"}

\* claims[T]: SplitThreeParts(accessToken), then accessToken[:p2] and
\* accessToken[p2+1:]
StepSplit(p) ==
  /\ AtPc(p, "split")
  /\ LET c == call[p]
         sp == SplitThreeParts(c.buf)
         stop == claimsNext("split", sp.err # "nil") = "return"
     IN call' = [call EXCEPT ![p] =
          [c EXCEPT !.p1 = sp.p1, !.p2 = sp.p2, !.trace = Append(@, "split"),
                    !.pc = IF stop THEN "done"
                           ELSE IF SliceOK(0, sp.p2, Len(c.buf))
                                   /\ SliceOK(sp.p2 + 1, Len(c.buf), Len(c.buf))
                                THEN VerifyEntry(v.itab)
                                ELSE "panic",
                    !.ret = IF stop THEN Result(FALSE, ZeroClaims, sp.err) ELSE @]]
  /\ UNCHANGED <<now, made, v, active, inputs, digest, web, muter, md>>

\* Sign and Verify: hmac.New(sha256.New, v.key), crypto.SHA256.New(), ...
StepNew(p) ==
  /\ AtPc(p, "new")
  /\ digest' = [digest EXCEPT ![DigestSlot(p)] =
       IF IsHMAC(v.itab) THEN HmacNew(HashOf(v.itab), v.ptr.key) ELSE HashNew(HashOf(v.itab))]
  /\ call' = [q \in Goroutines |->
       IF q = p
       THEN [call[p] EXCEPT !.trace = Append(@, "new"),
                            !.pc = IF IsHMAC(v.itab) THEN "write" ELSE "sigdec",
                            !.during = \E o \in Goroutines \ {p} : Hashing(o)]
       ELSE [call[q] EXCEPT !.during = @ \/ Hashing(q)]]
  /\ UNCHANGED <<now, made, v, active, inputs, web, muter, md>>

\* the ECDSA and EdDSA verify: B64Decode(jwtSignature, v.reuse)
StepSigDecode(p) ==
  /\ AtPc(p, "sigdec")
  /\ \E partial \in BOOLEAN :
       LET c == call[p]
           d == B64Decode(c.buf, c.p2 + 1, Len(c.buf) - c.p2 - 1, Reuse(v), partial)
           t == [c EXCEPT !.trace = Append(@, "sigdec"), !.buf = d.buf, !.sigBin = d.out]
       IN call' = [call EXCEPT ![p] =
            IF d.err # "nil" THEN AfterVerify(t, FALSE)
            ELSE [t EXCEPT !.pc = IF v.itab = "EdDSA" THEN "sum" ELSE "write"]]
  /\ UNCHANGED <<now, made, v, active, inputs, digest, web, muter, md>>

\* digest.Write(headerPayload)
StepWrite(p) ==
  /\ AtPc(p, "write")
  /\ digest' = [digest EXCEPT ![DigestSlot(p)] =
       HashWrite(@, Slice(call[p].buf, 0, call[p].p2))]
  /\ call' = [call EXCEPT ![p] = [@ EXCEPT !.trace = Append(@, "write"), !.pc = "sum"]]
  /\ UNCHANGED <<now, made, v, active, inputs, web, muter, md>>

\* digest.Sum(nil) and what each method does with it (the hash instance is
\* not used after that): Sign encodes it,
\* the HMAC verify compares the encoding with the signature segment, the ECDSA
\* verify calls ecdsa.Verify; the EdDSA verify calls ed25519.Verify
StepSum(p) ==
  /\ AtPc(p, "sum")
  /\ LET c == call[p]
         t == [c EXCEPT !.trace = Append(@, "sum")]
         hp == Slice(c.buf, 0, c.p2)
         sig == Slice(c.buf, c.p2 + 1, Len(c.buf))
         sum == HashSum(digest[DigestSlot(p)])
     IN call' = [call EXCEPT ![p] =
          IF c.op = "Sign"
          THEN [t EXCEPT !.pc = "done", !.ret = [NoResult EXCEPT !.out = B64Encode(sum)]]
          ELSE IF IsHMAC(v.itab) THEN AfterVerify(t, BytesEqual(B64Encode(sum), sig))
          ELSE IF IsECDSA(v.itab) THEN AfterVerify(t, EcdsaVerifyHalves(v, sum, c.sigBin))
          ELSE AfterVerify(t, Ed25519Verify(v.ptr.key, hp, c.sigBin))]
  /\ digest' = [digest EXCEPT ![DigestSlot(p)] = << >>]
  /\ UNCHANGED <<now, made, v, active, inputs, web, muter, md>>

\* AccessClaimsFromBase64: B64Decode(b64, reuse)
StepDecode(p) ==
  /\ AtPc(p, "decode")
  /\ \E partial \in BOOLEAN :
       LET c == call[p]
           reuse == IF c.op = "AccessClaimsFromBase64" THEN c.reuse ELSE Reuse(v)
           d == B64Decode(c.buf, c.p1 + 1, c.p2 - c.p1 - 1, reuse, partial)
           t == [c EXCEPT !.trace = Append(@, "decode"), !.buf = d.buf, !.payload = d.out]
       IN call' = [call EXCEPT ![p] =
            IF d.err # "nil"
            THEN [t EXCEPT !.pc = "done", !.ret = Result(FALSE, ZeroClaims, "ErrNoBase64JWT")]
            ELSE [t EXCEPT !.pc = "unmarshal"]]
  /\ UNCHANGED <<now, made, v, active, inputs, digest, web, muter, md>>

\* AccessClaimsFromBase64: json.Unmarshal(bin, &claims)
StepUnmarshal(p) ==
  /\ AtPc(p, "unmarshal")
  /\ LET c == call[p]
         j == JSONUnmarshal(c.payload)
         t == [c EXCEPT !.trace = Append(@, "unmarshal")]
     IN call' = [call EXCEPT ![p] =
          IF ~j.ok
          THEN [t EXCEPT !.pc = "done", !.ret = Result(FALSE, ZeroClaims, "claimError")]
          ELSE [t EXCEPT !.pc = "valid", !.claims = j.claims]]
  /\ UNCHANGED <<now, made, v, active, inputs, digest, web, muter, md>>

\* AccessClaimsFromBase64: claims.Valid(), and the return of &claims with its
\* error; claims[T] then returns the claims or the error
StepValid(p) ==
  /\ AtPc(p, "valid")
  /\ LET c == call[p]
         r == Result(TRUE, c.claims, Valid(c.claims, now))
     IN call' = [call EXCEPT ![p] =
          [c EXCEPT !.trace = Append(@, "valid"), !.pc = "done", !.at = now,
                    !.ret = IF c.op = "Claims" THEN claimsReturn(r) ELSE r]]
  /\ UNCHANGED <<now, made, v, active, inputs, digest, web, muter, md>>

\* the caller takes the result
Return(p) ==
  /\ AtPc(p, "done")
  /\ call' = [call EXCEPT ![p] = Idle]
  /\ UNCHANGED <<now, made, v, active, inputs, digest, web, muter, md>>

\* a second passes
Tick ==
  /\ now < MaxTime
  /\ now' = now + 1
  /\ UNCHANGED <<made, v, active, inputs, call, digest, web, muter, md>>

Step(p) ==
  \/ CallClaims(p) \/ CallVerify(p) \/ CallSign(p) \/ CallAccessClaimsFromBase64(p)
  \/ CallGenAccessToken(p) \/ CallReuse(p) \/ PresentIssued(p)
  \/ StepSplit(p) \/ StepNew(p) \/ StepSigDecode(p) \/ StepWrite(p) \/ StepSum(p)
  \/ StepDecode(p) \/ StepUnmarshal(p) \/ StepValid(p) \/ Return(p)

Next == (\E p \in Goroutines : Step(p)) \/ Tick

Spec == Init /\ [][Next]_vars

\* the goroutines run in any interleaving; the clock stands still meanwhile
NextConc ==
  \E p \in Goroutines :
    \/ CallClaims(p) \/ CallVerify(p) \/ CallSign(p) \/ CallGenAccessToken(p) \/ CallReuse(p)
    \/ StepSplit(p) \/ StepNew(p) \/ StepSigDecode(p) \/ StepWrite(p) \/ StepSum(p)
    \/ StepDecode(p) \/ StepUnmarshal(p) \/ StepValid(p) \/ Return(p)

SpecConc == InitConc /\ [][NextConc]_vars

\* Verify and Claims on the tampered tokens
NextTamper ==
  \/ CallClaims(1) \/ CallVerify(1)
  \/ StepSplit(1) \/ StepNew(1) \/ StepSigDecode(1) \/ StepWrite(1) \/ StepSum(1)
  \/ StepDecode(1) \/ StepUnmarshal(1) \/ StepValid(1) \/ Return(1)

SpecTamper == InitTamper /\ [][NextTamper]_vars

(***************************************************************************)
(* The parts of a token, and what a call returns when it runs alone.       *)
(***************************************************************************)
Dots(tok) == Cardinality({i \in 1..Len(tok) : tok[i] = 46})

HeaderPayloadOf(tok) == Slice(tok, 0, LastIndexByte(tok, 46))

SignatureOf(tok) == Slice(tok, LastIndexByte(tok, 46) + 1, Len(tok))

PayloadOf(tok) == Slice(tok, IndexByte(tok, 46) + 1, LastIndexByte(tok, 46))

\* AccessClaimsFromBase64(b64, reuse) at time t, as a function
AccessClaimsOf(b64, t) ==
  IF B64Corrupt(b64) THEN Result(FALSE, ZeroClaims, "ErrNoBase64JWT")
  ELSE IF ~JSONUnmarshal(B64DecodeBytes(b64)).ok THEN Result(FALSE, ZeroClaims, "claimError")
  ELSE Result(TRUE, JSONUnmarshal(B64DecodeBytes(b64)).claims,
              Valid(JSONUnmarshal(B64DecodeBytes(b64)).claims, t))

\* w.Claims(tok) at time t, as a function
ClaimsOf(w, tok, t) ==
  IF SplitThreeParts(tok).err # "nil" THEN Result(FALSE, ZeroClaims, SplitThreeParts(tok).err)
  ELSE IF ~Verify(w, HeaderPayloadOf(tok), SignatureOf(tok))
       THEN Result(FALSE, ZeroClaims, "ErrJWTSignature")
  ELSE IF AccessClaimsOf(PayloadOf(tok), t).err # "nil"
       THEN Result(FALSE, ZeroClaims, AccessClaimsOf(PayloadOf(tok), t).err)
  ELSE AccessClaimsOf(PayloadOf(tok), t)

ClaimsDone(p) == call[p].op = "Claims" /\ call[p].pc = "done"

(***************************************************************************)
(* C1.  Claims returns claims and no error exactly when the token splits   *)
(* in three parts, Verify accepts the signature, the payload decodes from  *)
(* base64 and from JSON, and the claims are valid at that time; otherwise  *)
(* it returns no claims and an error.  It never returns both or neither.   *)
(***************************************************************************)
C1_AllStagesPass(c) ==
  /\ SplitThreeParts(c.arg).err = "nil"
  /\ Verify(v, HeaderPayloadOf(c.arg), SignatureOf(c.arg))
  /\ ~B64Corrupt(PayloadOf(c.arg))
  /\ JSONUnmarshal(B64DecodeBytes(PayloadOf(c.arg))).ok
  /\ Valid(JSONUnmarshal(B64DecodeBytes(PayloadOf(c.arg))).claims, c.at) = "nil"

\* C1: a finished Claims call holds either the claims and a nil error, when
\* every stage passed, or nil claims and an error, when one did not
C1_ClaimsOrError ==
  \A p \in Goroutines : ClaimsDone(p) =>
    LET c == call[p] IN
    /\ c.ret.some <=> c.ret.err = "nil"
    /\ c.ret.some <=> C1_AllStagesPass(c)
    /\ c.ret.some => c.ret.claims = JSONUnmarshal(B64DecodeBytes(PayloadOf(c.arg))).claims

C1_Witness ==
  \E p \in Goroutines :
    /\ ClaimsDone(p)
    /\ call[p].ret.some
    /\ call[p].ret.claims.usr = <<106>>
    /\ call[p].trace[Len(call[p].trace)] = "valid"

(***************************************************************************)
(* C2.  Claims runs its stages in the order split, verify, decode,         *)
(* validate, each at most once, and stops at the first that fails.         *)
(***************************************************************************)
VerifySteps(t) ==
  IF IsHMAC(t) THEN <<"new", "write", "sum">>
  ELSE IF IsECDSA(t) THEN <<"new", "sigdec", "write", "sum">>
  ELSE <<"sigdec", "sum">>

StagesOf(t) == <<"split">> \o VerifySteps(t) \o <<"decode", "unmarshal", "valid">>

IsPrefix(a, b) == Len(a) <= Len(b) /\ SubSeq(b, 1, Len(a)) = a

Ran(c, stage) == \E i \in 1..Len(c.trace) : c.trace[i] = stage

\* C2: the steps a Claims call has run are a prefix of split, verify, decode,
\* validate; a token with fewer than two dots fails as malformed with no
\* step of Verify or Sign run; a token whose signature Verify refuses fails
\* with ErrJWTSignature with its payload not decoded and not validated,
\* expired or not
C2_StagesInOrder ==
  \A p \in Goroutines : call[p].op = "Claims" =>
    LET c == call[p] IN
    /\ IsPrefix(c.trace, StagesOf(v.itab))
    /\ c.pc = "done" /\ Dots(c.arg) < 2 =>
         c.ret.err = "ErrThreeParts" /\ c.trace = <<"split">>
    /\ c.pc = "done" /\ Dots(c.arg) >= 2
         /\ ~Verify(v, HeaderPayloadOf(c.arg), SignatureOf(c.arg)) =>
         /\ c.ret.err = "ErrJWTSignature"
         /\ ~Ran(c, "decode") /\ ~Ran(c, "unmarshal") /\ ~Ran(c, "valid")
    /\ c.pc = "done" /\ c.ret.err = "ErrNoBase64JWT" => c.trace[Len(c.trace)] = "decode"
    /\ c.pc = "done" /\ c.ret.err = "claimError" => c.trace[Len(c.trace)] = "unmarshal"

\* an expired token with a bad signature is refused for its signature
C2_Witness ==
  \E p \in Goroutines :
    /\ ClaimsDone(p)
    /\ call[p].ret.err = "ErrJWTSignature"
    /\ AccessClaimsOf(PayloadOf(call[p].arg), now).err = "ErrTokenExpired"
    /\ Ran(call[p], "sum")

(***************************************************************************)
(* C3.  Which tokens are well formed, and which bytes are signed.          *)
(***************************************************************************)
\* the token the call was given splits, and the call has written the bytes
\* it verifies into its hash instance
Written(p) ==
  /\ call[p].op \in {"Claims", "Verify"}
  /\ call[p].pc = "sum"
  /\ v.itab # "EdDSA"

FreshHash(w) ==
  IF IsHMAC(w.itab) THEN HmacNew(HashOf(w.itab), w.ptr.key) ELSE HashNew(HashOf(w.itab))

\* C3 as the code has it: Claims fails with the malformed-token error for a
\* token with no dot or one dot, and never with that error for a token with
\* two dots or more; a token with three dots or more is not accepted either,
\* it fails with the bad-signature error, or with the base64 error when its
\* signature matches; the bytes given to the signature function are the
\* bytes of the token before its last dot, which for two dots are the header
\* segment, one dot and the payload segment
C3_TwoDotsOrMore ==
  \A p \in Goroutines :
    LET c == call[p] IN
    /\ ClaimsDone(p) =>
         /\ Dots(c.arg) < 2 <=> c.ret.err = "ErrThreeParts"
         /\ Dots(c.arg) > 2 => ~c.ret.some /\ c.ret.err \in {"ErrJWTSignature", "ErrNoBase64JWT"}
    /\ Written(p) =>
         /\ digest[p] = HashWrite(FreshHash(v), HeaderPayloadOf(c.arg))
         /\ Dots(c.arg) = 2 =>
              HeaderPayloadOf(c.arg) =
                Slice(c.arg, 0, IndexByte(c.arg, 46)) \o <<46>> \o PayloadOf(c.arg)

\* a token with three dots, signed over all that precedes the last dot,
\* passes Verify and fails at the decoding of its payload
C3_Witness ==
  \E p \in Goroutines :
    /\ ClaimsDone(p)
    /\ Dots(call[p].arg) = 3
    /\ call[p].ok
    /\ call[p].ret.err = "ErrNoBase64JWT"

\* C3 as stated: Claims fails with the malformed-token error for every token
\* that has not exactly two dots
C3_ExactlyTwoDots ==
  \A p \in Goroutines :
    ClaimsDone(p) /\ Dots(call[p].arg) # 2 => call[p].ret.err = "ErrThreeParts"

(***************************************************************************)
(* C4.  What the constructors return with an error.                        *)
(***************************************************************************)
\* C4 as stated: when NewVerifier returns an error, the Verifier returned
\* with it compares equal to nil
C4_ErrorMeansNil == made.err # "nil" => made.val = NilIface

(***************************************************************************)
(* C5.  The expiry boundary.                                               *)
(***************************************************************************)
Validated(p) ==
  /\ call[p].op \in {"Claims", "AccessClaimsFromBase64"}
  /\ call[p].pc = "done"
  /\ Ran(call[p], "valid")

\* C5: claims that carry an expiry pass validation only before it: at the
\* second of the expiry or later the call fails with the expired error, and
\* before it the call succeeds (when nbf and iat, if any, allow it)
C5_StrictExpiry ==
  \A p \in Goroutines : Validated(p) /\ call[p].claims.exp # NoTime =>
    LET c == call[p] IN
    /\ c.at >= c.claims.exp => c.ret.err = "ErrTokenExpired"
    /\ c.at < c.claims.exp =>
         c.ret.err = Valid([c.claims EXCEPT !.exp = NoTime], c.at)
    /\ c.at < c.claims.exp /\ c.claims.nbf = NoTime /\ c.claims.iat = NoTime =>
         c.ret.err = "nil" /\ c.ret.some

\* claims validated at the very second they expire
C5_Witness ==
  \E p \in Goroutines :
    /\ Validated(p)
    /\ call[p].claims.exp = call[p].at
    /\ call[p].at > 0
    /\ call[p].ret.err = "ErrTokenExpired"

(***************************************************************************)
(* C6.  Tokens without an expiry.                                          *)
(***************************************************************************)
\* C6 as stated: a call that validates claims with no exp, or with exp 0,
\* returns an error
C6_ExpiryRequired ==
  \A p \in Goroutines :
    Validated(p) /\ call[p].claims.exp \in {NoTime, 0} => call[p].ret.err # "nil"

(***************************************************************************)
(* C7.  Tampering with an accepted token.                                  *)
(***************************************************************************)
\* the valid token of the tampering runs
Untampered == SignedToken(v, Header, JSONMarshal(StdClaims), 1)

\* the position (from 1) of the byte in which tok differs from std, 0 when
\* tok is not std with one byte changed
Tampered(tok, std) ==
  IF Len(tok) = Len(std) /\ Cardinality({i \in 1..Len(tok) : tok[i] # std[i]}) = 1
  THEN CHOOSE i \in 1..Len(tok) : tok[i] # std[i]
  ELSE 0

Finished(p, op) == call[p].op = op /\ call[p].pc = "done"

\* C7 as the code has it: for every algorithm the valid token is accepted,
\* and with any one bit of its header.payload inverted Verify returns false
\* and Claims fails, with the bad-signature error or, when the bit is in the
\* dot, with the malformed-token error.  For the HMAC tokenizers inverting any
\* bit of the signature segment does the same, and no other signature segment
\* is accepted for the same header.payload.  For ECDSA and EdDSA, inverting a
\* bit of the signature segment makes Verify false and Claims fail with the
\* bad-signature error whenever it changes the bytes the segment decodes to.
C7_TamperRefused ==
  \A p \in Goroutines : Finished(p, "Verify") \/ Finished(p, "Claims") =>
    LET c == call[p]
        std == Untampered
        dot == LastIndexByte(std, 46)
        pos == Tampered(c.arg, std)
        sig == SignatureOf(c.arg)
        refused == IF c.op = "Verify" THEN ~c.ret.ok ELSE c.ret.err = "ErrJWTSignature"
        changed == B64Corrupt(sig) \/ B64DecodeBytes(sig) # B64DecodeBytes(SignatureOf(std))
    IN /\ c.arg = std => (IF c.op = "Verify" THEN c.ret.ok ELSE c.ret.some)
       /\ pos # 0 /\ pos <= dot =>
            IF c.op = "Verify" THEN ~c.ret.ok
            ELSE c.ret.err \in {"ErrJWTSignature", "ErrThreeParts"}
       /\ pos > dot + 1 /\ (IsHMAC(v.itab) \/ changed) => refused
       /\ IsHMAC(v.itab) /\ HeaderPayloadOf(c.arg) = HeaderPayloadOf(std)
            /\ sig # SignatureOf(std) => refused

\* Claims has refused, for its signature, a token signed with ECDSA or EdDSA
\* of which one bit of the signature segment was inverted
C7_Witness ==
  \E p \in Goroutines :
    /\ Finished(p, "Claims")
    /\ ~IsHMAC(v.itab)
    /\ Ran(call[p], "sum")
    /\ call[p].ret.err = "ErrJWTSignature"
    /\ Tampered(call[p].arg, Untampered) > LastIndexByte(call[p].arg, 46) + 1

\* C7 as stated: with any one bit of the signature segment or of the
\* header.payload inverted Verify returns false, and no two signature
\* segments are accepted for the same header.payload, whatever the algorithm
C7_AnyBitAnyAlgorithm ==
  \A p \in Goroutines : Finished(p, "Verify") =>
    LET c == call[p]
        std == Untampered
    IN /\ Tampered(c.arg, std) # 0 => ~c.ret.ok
       /\ HeaderPayloadOf(c.arg) = HeaderPayloadOf(std)
            /\ SignatureOf(c.arg) # SignatureOf(std) => ~c.ret.ok

(***************************************************************************)
(* C8.  Round trip of signing and verifying.                               *)
(***************************************************************************)
\* C8: Verify accepts header.payload with the signature made for it with the
\* matching key, whatever the algorithm; for the HMAC tokenizers what Sign
\* returns for hp is what Verify accepts for hp; and Claims, given a token
\* GenAccessToken returned, before that token expires, returns the claims
\* that were issued
C8_RoundTrip ==
  \A p \in Goroutines :
    LET c == call[p] IN
    /\ Finished(p, "Verify")
         /\ SignatureOf(c.arg) \in { SignatureFor(v, HeaderPayloadOf(c.arg), n) : n \in 1..2 }
         => c.ret.ok
    /\ Finished(p, "Sign") => Verify(v, c.arg, c.ret.out)
    /\ Finished(p, "Claims") /\ c.issued /\ c.at < c.want.exp =>
         c.ret.some /\ c.ret.err = "nil" /\ c.ret.claims = c.want

\* Claims has returned the claims of a token that GenAccessToken issued,
\* with a tokenizer that does not use SHA-256
C8_Witness ==
  \E p \in Goroutines :
    /\ Finished(p, "Claims")
    /\ call[p].issued
    /\ v.itab = "HS512"
    /\ call[p].ret.some
    /\ call[p].ret.claims = call[p].want
    /\ call[p].ret.claims.exp > call[p].at

(***************************************************************************)
(* C9.  Concurrent calls on one verifier.                                  *)
(***************************************************************************)
\* C9: in any interleaving of the steps of two goroutines, each on its own
\* buffer, a Sign, Verify or Claims call returns what the same call returns
\* when it runs alone, and the hash instance a call is about to read holds
\* the bytes that call wrote and no others
C9_AsIfAlone ==
  \A p \in Goroutines :
    LET c == call[p] IN
    /\ Finished(p, "Sign") => c.ret.out = Sign(v, c.arg)
    /\ Finished(p, "Verify") =>
         c.ret.ok = Verify(v, HeaderPayloadOf(c.arg), SignatureOf(c.arg))
    /\ Finished(p, "Claims") => c.ret = ClaimsOf(v, c.arg, now)
    /\ Hashing(p) /\ c.pc = "sum" =>
         digest[DigestSlot(p)] =
           HashWrite(FreshHash(v), IF c.op = "Sign" THEN c.arg ELSE HeaderPayloadOf(c.arg))

\* a call has finished that held a hash instance while the other goroutine
\* held one too
C9_Witness ==
  \E p, q \in Goroutines :
    /\ p # q
    /\ call[p].pc = "done"
    /\ call[p].op \in {"Sign", "Verify", "Claims"}
    /\ call[p].during
    /\ Ran(call[p], "sum")
    /\ call[q].pc = "done"
    /\ call[q].during

(***************************************************************************)
(* C10.  The verifier after construction.                                  *)
(***************************************************************************)
\* C10: whatever calls have run or are running, the verifier holds the key
\* material and the reuse flag it held when the constructor returned, and
\* Reuse() returns the flag given to the constructor
C10_Immutable ==
  /\ v = made.val
  /\ Usable => v.ptr.reuse = made.reuse
  /\ \A p \in Goroutines : Finished(p, "Reuse") => call[p].ret.ok = made.reuse

\* Reuse() has returned true while the other goroutine has had Claims
\* decode a payload in its buffer
C10_Witness ==
  \E p, q \in Goroutines :
    /\ Finished(p, "Reuse")
    /\ call[p].ret.ok
    /\ Finished(q, "Claims")
    /\ Ran(call[q], "valid")
    /\ call[q].buf # call[q].arg

(***************************************************************************)
(* C11.  What B64Decode writes.                                            *)
(***************************************************************************)
\* the call decodes with reuse
Reusing(c) == IF c.op = "AccessClaimsFromBase64" THEN c.reuse ELSE Reuse(v)

\* the positions (from 1) of the segments the call has given to B64Decode
Decoded(c) ==
  (IF Ran(c, "decode") THEN (c.p1 + 2)..c.p2 ELSE {})
  \cup (IF Ran(c, "sigdec") THEN (c.p2 + 2)..Len(c.arg) ELSE {})

Decoding(p) ==
  /\ p \in active
  /\ call[p].op \in {"Claims", "Verify", "AccessClaimsFromBase64"}
  /\ call[p].pc # "idle"

\* C11: without reuse the buffer given to a call is never written; with reuse
\* it is written only inside the segments given to B64Decode (the payload
\* segment, and the signature segment for ECDSA and EdDSA), and what
\* B64Decode returns is the start of the segment it was given: as many bytes
\* as the segment decodes to, which are not more than the segment has
C11_DecodeFrame ==
  \A p \in Goroutines : Decoding(p) =>
    LET c == call[p]
        segment == c.p2 - c.p1 - 1
    IN /\ Len(c.buf) = Len(c.arg)
       /\ ~Reusing(c) => c.buf = c.arg
       /\ \A i \in (1..Len(c.arg)) \ Decoded(c) : c.buf[i] = c.arg[i]
       /\ Ran(c, "decode") /\ c.pc \in {"unmarshal", "valid"} =>
            /\ Len(c.payload) = DecodedLen(segment)
            /\ Len(c.payload) <= segment
            /\ c.payload = B64DecodeBytes(Slice(c.arg, c.p1 + 1, c.p2))
            /\ Reusing(c) => c.payload = Slice(c.buf, c.p1 + 1, c.p1 + 1 + Len(c.payload))

\* a payload was decoded over its own segment of the buffer
C11_Witness ==
  \E p \in Goroutines :
    /\ Decoding(p)
    /\ call[p].op = "Claims"
    /\ call[p].pc = "valid"
    /\ Reusing(call[p])
    /\ call[p].buf # call[p].arg
    /\ call[p].payload = Slice(call[p].buf, call[p].p1 + 1, call[p].p1 + 1 + Len(call[p].payload))

(***************************************************************************)
(* C12.  The length of the key material.                                   *)
(***************************************************************************)
\* the number of bytes each constructor asks of the key text
KeySize(t) ==
  CASE t = "HS256" -> 32 [] t = "HS384" -> 48 [] t = "HS512" -> 64
    [] t = "ES256" -> 91 [] t = "ES384" -> 120 [] t = "ES512" -> 158
    [] OTHER -> 44

\* the number of bytes of key material a verifier holds: the secret, the
\* curve point without its marker byte, the Ed25519 public key
MaterialSize(t) ==
  CASE t = "HS256" -> 32 [] t = "HS384" -> 48 [] t = "HS512" -> 64
    [] t = "ES256" -> 64 [] t = "ES384" -> 96 [] t = "ES512" -> 132
    [] OTHER -> 32

\* the key text of a descriptor: what follows its first colon, or all of it
KeyTextOf(algoKey) == SubSeq(algoKey, IndexByte(algoKey, 58) + 2, Len(algoKey))

\* the lengths the key text decodes to, as hexadecimal and as base64
DecodedSizes(keyTxt) ==
  (IF IsHex(keyTxt) THEN {Len(keyTxt) \div 2} ELSE {})
  \cup (IF B64Corrupt(keyTxt) THEN {} ELSE {DecodedLen(Len(keyTxt))})

\* C12: a verifier exists only if the key text of its descriptor decodes, as
\* hexadecimal or as base64, to the number of bytes its algorithm requires,
\* it holds key material of the length of its algorithm, and Verify, given a
\* signature made with the matching key, accepts it
C12_KeyLength ==
  /\ Usable =>
       /\ KeySize(v.itab) \in DecodedSizes(KeyTextOf(made.algoKey))
       /\ Len(v.ptr.key) = MaterialSize(v.itab)
  /\ \A p \in Goroutines :
       Finished(p, "Verify")
         /\ SignatureOf(call[p].arg) = SignatureFor(v, HeaderPayloadOf(call[p].arg), 1)
         => call[p].ret.ok

\* a verifier made from a base64 key of 120 bytes has accepted a signature
C12_Witness ==
  \E p \in Goroutines :
    /\ Finished(p, "Verify")
    /\ v.itab = "ES384"
    /\ Len(v.ptr.key) = 96
    /\ call[p].ret.ok

(***************************************************************************)
(* C13.  The descriptor that names no algorithm.                           *)
(***************************************************************************)
\* the descriptor is a bare secret, or its prefix is empty or "HMAC"
Unnamed(algoKey) ==
  \/ IndexByte(algoKey, 58) < 0
  \/ ToUpper(SubSeq(algoKey, 1, IndexByte(algoKey, 58))) \in {<< >>, <<72, 77, 65, 67>>}

\* the HMAC algorithm of the first of the lengths 32, 48, 64 among sizes
FirstHMAC(sizes) ==
  IF 32 \in sizes THEN "HS256"
  ELSE IF 48 \in sizes THEN "HS384"
  ELSE IF 64 \in sizes THEN "HS512"
  ELSE "none"

AlgoOf(algoKey) == ToUpper(SubSeq(algoKey, 1, IndexByte(algoKey, 58)))

\* RS256, RS384, RS512, PS256, PS384, PS512
RSANames ==
  { <<82, 83, 50, 53, 54>>, <<82, 83, 51, 56, 52>>, <<82, 83, 53, 49, 50>>,
    <<80, 83, 50, 53, 54>>, <<80, 83, 51, 56, 52>>, <<80, 83, 53, 49, 50>> }

\* the empty name, HMAC, HS256, HS384, HS512, ES256, ES384, ES512, EDDSA
ImplementedNames ==
  { << >>, <<72, 77, 65, 67>>,
    <<72, 83, 50, 53, 54>>, <<72, 83, 51, 56, 52>>, <<72, 83, 53, 49, 50>>,
    <<69, 83, 50, 53, 54>>, <<69, 83, 51, 56, 52>>, <<69, 83, 53, 49, 50>>,
    <<69, 68, 68, 83, 65>> }

\* C14: a descriptor that names RS256, RS384, RS512, PS256, PS384 or PS512,
\* in any letter case, is refused with the unsupported-algorithm error, one
\* that names none of the recognised algorithms is refused with the
\* unknown-algorithm error; in both cases no verifier is returned, even when
\* the key text is a valid HMAC secret, and no call is ever made on one
C14_NotImplemented ==
  IndexByte(made.algoKey, 58) >= 0 =>
    /\ AlgoOf(made.algoKey) \in RSANames =>
         made.err = "ErrNotSupported"
    /\ AlgoOf(made.algoKey) \notin RSANames \cup ImplementedNames =>
         made.err = "ErrUnexpectedAlgo"
    /\ AlgoOf(made.algoKey) \notin ImplementedNames =>
         /\ v = NilIface
         /\ \A p \in Goroutines : call[p] = Idle

\* "Rs512:" followed by a base64 secret of 48 bytes has been refused as
\* unsupported, and time has passed without any call
C14_Witness ==
  /\ AlgoOf(made.algoKey) = <<82, 83, 53, 49, 50>>
  /\ SubSeq(made.algoKey, 1, 2) = <<82, 115>>
  /\ FirstHMAC(DecodedSizes(KeyTextOf(made.algoKey))) = "HS384"
  /\ made.err = "ErrNotSupported"
  /\ v = NilIface
  /\ now > 0

(***************************************************************************)
(* C15.  The descriptor that is a Quid URL.                                *)
(***************************************************************************)
\* "https:"
HttpsScheme == <<104, 116, 116, 112, 115, 58>>

\* C15: a descriptor that is a Quid URL is taken as the third documented
\* form: NewVerifier does not take the text before its first colon, "https",
\* for an algorithm name and does not refuse it as an unknown algorithm
C15_QuidURLRecognised ==
  HasPrefix(made.algoKey, HttpsScheme) => made.err # "ErrUnexpectedAlgo"

(***************************************************************************)
(* C16.  No token makes Claims or Verify panic.                            *)
(***************************************************************************)
\* the places of a call that has a next step: each is the guard of one step
Running ==
  {"split", "new", "sigdec", "write", "sum", "decode", "unmarshal", "valid"}

\* C16: whatever the token, a call of Claims or Verify on a verifier that was
\* built without error never evaluates a slice expression out of range, has
\* a next step until it returns, and returns false or true (Verify), the
\* claims without error or no claims and an error (Claims)
C16_NeverPanics ==
  \A p \in Goroutines :
    LET c == call[p]
    IN c.op \in {"Claims", "Verify"} =>
         /\ c.pc # "panic"
         /\ c.pc # "done" => c.pc \in Running
         /\ Ran(c, "split") /\ c.ret.err # "ErrThreeParts" =>
              /\ SliceOK(0, c.p2, Len(c.arg))
              /\ SliceOK(c.p2 + 1, Len(c.arg), Len(c.arg))
              /\ SliceOK(c.p1 + 1, c.p2, Len(c.arg))
         /\ Finished(p, "Claims") =>
              IF c.ret.some THEN c.ret.err = "nil" ELSE c.ret.err # "nil"

\* Claims has returned an error, and Verify false, for a token that is only
\* dots and for one whose signature segment decodes to a single byte
C16_Witness ==
  \E p \in Goroutines :
    /\ IsECDSA(v.itab)
    /\ call[p].pc = "done"
    /\ \/ Finished(p, "Claims") /\ call[p].arg = <<46, 46>>
             /\ call[p].ret.err = "ErrJWTSignature"
       \/ Finished(p, "Verify") /\ Len(call[p].sigBin) = 1 /\ ~call[p].ret.ok

(***************************************************************************)
(* The cookie-based access controller: NewJWTChecker and its middlewares   *)
(* Chk, Vet and Set, around the downstream handler of TestNewJWTChecker.   *)
(***************************************************************************)
\* gwt.DefaultPlan and gwt.DefaultPerm
DefaultPlan == <<68, 101, 102, 97, 117, 108, 116, 80, 108, 97, 110>>

DefaultPerm == 1

\* the plan names of the test: "Anonymous", "Personal", "Enterprise" and "55"
Anonymous == <<65, 110, 111, 110, 121, 109, 111, 117, 115>>

Personal == <<80, 101, 114, 115, 111, 110, 97, 108>>

Enterprise == <<69, 110, 116, 101, 114, 112, 114, 105, 115, 101>>

CustomPlan == <<53, 53>>

\* the plan/permission lists the test gives to NewJWTChecker
PermissionLists ==
  { << >>,
    <<Anonymous, 6>>,
    <<Anonymous, 6, Personal>>,
    <<Anonymous, 6, Personal, 48, Enterprise, 0>>,
    <<Anonymous, 6, Personal, 48, Enterprise, -1>> }

\* the secret of the access controller
WebSecrets == { HexEncode(KeyBytes(32)) }

\* the most requests one access controller serves
MaxRequests == 2

\* NewCookie: the cookie that carries the token of a plan; it outlives the run
NewCookie(plan) == [present |-> TRUE, plan |-> plan, signed |-> TRUE, exp |-> MaxTime + 1]

\* a NewJWTChecker that ignores a plan left without permission
NewJWTCheckerAnyLength(permissions) ==
  LET n == Len(permissions) \div 2
      plans == IF n = 0 THEN <<DefaultPlan>> ELSE [i \in 1..n |-> permissions[2 * i - 1]]
      perms == IF n = 0 THEN <<DefaultPerm>> ELSE [i \in 1..n |-> permissions[2 * i]]
  IN [panic |-> FALSE,
      ck |-> [plans |-> plans, perms |-> perms,
              cookies |-> [i \in 1..Len(plans) |-> NewCookie(plans[i])]]]

\* NewJWTChecker(gw, urls, secretHex, cookieName, permissions...): it panics
\* on a list of odd length; without plans it has the default plan
NewJWTChecker(permissions) ==
  IF Len(permissions) % 2 = 1
  THEN [panic |-> TRUE, ck |-> NoWeb.ck]
  ELSE LET n == Len(permissions) \div 2
           plans == IF n = 0 THEN <<DefaultPlan>> ELSE [i \in 1..n |-> permissions[2 * i - 1]]
           perms == IF n = 0 THEN <<DefaultPerm>> ELSE [i \in 1..n |-> permissions[2 * i]]
       IN [panic |-> FALSE,
           ck |-> [plans |-> plans, perms |-> perms,
                   cookies |-> [i \in 1..Len(plans) |-> NewCookie(plans[i])]]]

\* strconv.Atoi on a text of digits
Atoi(s) == DigitsValue(s, 1, DigitsEnd(s, 1), 0)

\* the permission of a plan: the one configured, or the number the name is
PlanPerm(ck, plan) ==
  IF \E i \in 1..Len(ck.plans) : ck.plans[i] = plan
  THEN ck.perms[CHOOSE i \in 1..Len(ck.plans) : ck.plans[i] = plan]
  ELSE Atoi(plan)

\* the permission of the cookie of the request, when it has one whose token
\* is signed by the secret and has not expired at time t
PermFromCookie(ck, cookie, t) ==
  IF cookie.present /\ cookie.signed /\ t < cookie.exp
  THEN [ok |-> TRUE, perm |-> PlanPerm(ck, cookie.plan)]
  ELSE [ok |-> FALSE, perm |-> 0]

\* perm.PutInCtx(r) and gwt.PermFromCtx(r).Value
PutInCtx(perm) == [has |-> TRUE, perm |-> perm]

PermFromCtx(ctx) == ctx.perm

\* (next *next).ServeHTTP: the downstream handler notes that it was called
\* and the permission of the request context
ServeHTTP(next, ctx) == [calls |-> next.calls + 1, perm |-> PermFromCtx(ctx)]

\* what a middleware leaves when it calls the downstream handler
Passed(next, perm, cookies) ==
  [next |-> ServeHTTP(next, PutInCtx(perm)), ctx |-> PutInCtx(perm),
   setCookies |-> cookies, rejected |-> FALSE]

\* what a middleware leaves when it answers the request itself
Rejected(next) ==
  [next |-> next, ctx |-> NoCtx, setCookies |-> << >>, rejected |-> TRUE]

\* a Chk that lets a request without valid cookie pass as the first plan
ChkLenient(ck, cookie, next, t) ==
  LET p == PermFromCookie(ck, cookie, t)
  IN Passed(next, IF p.ok THEN p.perm ELSE ck.perms[1], << >>)

\* ck.Chk(next).ServeHTTP(w, r)
Chk(ck, cookie, next, t) ==
  LET p == PermFromCookie(ck, cookie, t)
  IN IF p.ok THEN Passed(next, p.perm, << >>) ELSE Rejected(next)

\* a Vet that refuses a request without valid cookie
VetStrict(ck, cookie, next, t) ==
  LET p == PermFromCookie(ck, cookie, t)
  IN IF p.ok THEN Passed(next, p.perm, << >>) ELSE Rejected(next)

\* ck.Vet(next).ServeHTTP(w, r)
Vet(ck, cookie, next, t) ==
  LET p == PermFromCookie(ck, cookie, t)
  IN Passed(next, IF p.ok THEN p.perm ELSE ck.perms[1], << >>)

\* a Set that leaves a request with a valid cookie as it is
SetWhenMissing(ck, cookie, next, t) ==
  LET p == PermFromCookie(ck, cookie, t)
  IN IF p.ok THEN Passed(next, p.perm, << >>)
     ELSE Passed(next, ck.perms[1], <<ck.cookies[1]>>)

\* ck.Set(next).ServeHTTP(w, r)
Set(ck, cookie, next, t) == Passed(next, ck.perms[1], <<ck.cookies[1]>>)

\* the cookies a client sends: none, or one for a plan of the access
\* controller or for the plan "55", signed by the secret or not, expired at
\* time 1 or never
RequestCookies(ck) ==
  {NoCookie}
  \cup { [present |-> TRUE, plan |-> plan, signed |-> signed, exp |-> exp] :
           plan \in {ck.plans[i] : i \in 1..Len(ck.plans)} \cup {CustomPlan},
           signed \in BOOLEAN, exp \in {1, MaxTime + 1} }

\* the access controller is built at start-up
CallNewJWTChecker ==
  /\ web.built = "no"
  /\ \E permissions \in PermissionLists :
       LET r == NewJWTChecker(permissions)
       IN web' = [web EXCEPT !.permissions = permissions, !.ck = r.ck,
                             !.built = IF r.panic THEN "panic" ELSE "yes"]
  /\ UNCHANGED <<now, made, v, active, inputs, call, digest, muter, md>>

\* a request arrives at one of the middlewares; the test resets the
\* downstream handler and takes a new response recorder
Arrive ==
  /\ web.built = "yes"
  /\ web.pc # "arrived"
  /\ web.served < MaxRequests
  /\ \E mw \in {"Chk", "Vet", "Set"}, cookie \in RequestCookies(web.ck) :
       web' = [web EXCEPT !.pc = "arrived", !.mw = mw, !.cookie = cookie,
                          !.next = NoCall, !.ctx = NoCtx, !.setCookies = << >>,
                          !.rejected = FALSE]
  /\ UNCHANGED <<now, made, v, active, inputs, call, digest, muter, md>>

\* the middleware mw serves the request as handler serves it
Serve(mw, r) ==
  /\ web.pc = "arrived"
  /\ web.mw = mw
  /\ web' = [web EXCEPT !.pc = "served", !.at = now, !.served = @ + 1,
                        !.next = r.next, !.ctx = r.ctx,
                        !.setCookies = r.setCookies, !.rejected = r.rejected]
  /\ UNCHANGED <<now, made, v, active, inputs, call, digest, muter, md>>

ServeChk == Serve("Chk", Chk(web.ck, web.cookie, web.next, now))

ServeVet == Serve("Vet", Vet(web.ck, web.cookie, web.next, now))

ServeSet == Serve("Set", Set(web.ck, web.cookie, web.next, now))

InitWeb == Constructed(WebSecrets, {}, 0, "web")

NextWeb == CallNewJWTChecker \/ Arrive \/ ServeChk \/ ServeVet \/ ServeSet \/ Tick

SpecWeb == InitWeb /\ [][NextWeb]_vars

\* a request that has arrived at Vet is served
SpecWebLive == SpecWeb /\ WF_vars(ServeVet)

\* the request that was served last went through the middleware mw
Served(mw) == web.pc = "served" /\ web.mw = mw

\* the cookie of that request was valid when it was served
CookieWasValid == web.cookie.present /\ web.cookie.signed /\ web.at < web.cookie.exp

\* the permission of the first configured plan, the default one without plan
FirstPerm == IF Len(web.permissions) >= 2 THEN web.permissions[2] ELSE DefaultPerm

(***************************************************************************)
(* C17.  The Chk middleware.                                               *)
(***************************************************************************)
\* C17: a request served by Chk with a valid cookie has had the downstream
\* handler called exactly once, with the permission of the plan of the cookie
\* in the request context; one without cookie, or with a cookie that is not
\* signed by the secret or has expired, has been answered without any call
\* of the downstream handler and without permission in the context
C17_ChkGuards ==
  Served("Chk") =>
    IF CookieWasValid
    THEN /\ web.next.calls = 1
         /\ web.ctx.has
         /\ web.next.perm = PlanPerm(web.ck, web.cookie.plan)
         /\ ~web.rejected
    ELSE /\ web.next.calls = 0
         /\ ~web.ctx.has
         /\ web.rejected

\* Chk has passed the second request of an access controller, which has the
\* cookie of the plan "Personal", with permission 48
C17_Witness ==
  /\ Served("Chk")
  /\ web.served = 2
  /\ web.cookie.plan = Personal
  /\ web.next.calls = 1
  /\ web.next.perm = 48

(***************************************************************************)
(* C18.  The Vet middleware.                                               *)
(***************************************************************************)
\* a request is at Vet and not served yet
AtVet == web.pc = "arrived" /\ web.mw = "Vet"

\* Vet has served a request: the downstream handler was called exactly once,
\* with the permission of the plan of the cookie when the cookie was valid
\* and with that of the first plan (the default one) when it was not
VetPassed ==
  /\ Served("Vet")
  /\ web.next.calls = 1
  /\ web.ctx.has
  /\ ~web.rejected
  /\ web.next.perm = IF CookieWasValid THEN PlanPerm(web.ck, web.cookie.plan) ELSE FirstPerm

\* C18: every request that arrives at Vet, whatever its cookie, is served
\* with the downstream handler called exactly once, and the permission in the
\* context is that of the plan of the cookie when the cookie is valid, that
\* of the default plan when it is absent or invalid
C18_VetNeverBlocks == [](Served("Vet") => VetPassed) /\ (AtVet ~> VetPassed)

\* Vet has passed a request whose cookie is not signed by the secret, with
\* the permission 6 of the first plan
C18_Witness ==
  /\ VetPassed
  /\ web.cookie.present
  /\ ~web.cookie.signed
  /\ web.cookie.plan = Enterprise
  /\ web.next.perm = 6

(***************************************************************************)
(* C19.  The Set middleware.                                               *)
(***************************************************************************)
\* C19: a request served by Set, whatever its cookie, has a response with
\* exactly one cookie, the first cookie of the access controller, which is
\* that of the first configured plan; the downstream handler was called once
\* and the permission in the context is that of the first configured plan,
\* the default permission when no plan is configured
C19_SetIssues ==
  Served("Set") =>
    /\ Len(web.setCookies) = 1
    /\ web.setCookies[1] = web.ck.cookies[1]
    /\ web.setCookies[1].plan =
         IF Len(web.permissions) >= 2 THEN web.permissions[1] ELSE DefaultPlan
    /\ web.next.calls = 1
    /\ web.ctx.has
    /\ web.next.perm = FirstPerm

\* Set has given the cookie of "Anonymous" and the permission 6 to a request
\* that came with a valid cookie of the plan "Personal"
C19_Witness ==
  /\ Served("Set")
  /\ CookieWasValid
  /\ web.cookie.plan = Personal
  /\ Len(web.setCookies) = 1
  /\ web.setCookies[1].plan = Anonymous
  /\ web.next.perm = 6

(***************************************************************************)
(* C20.  The plan/permission list of odd length.                           *)
(***************************************************************************)
\* C20: NewJWTChecker panics on a list of odd length and gives no access
\* controller, and no request is ever served after that; it gives one for
\* every list of even length, the empty one included
C20_OddListPanics ==
  /\ web.built = "panic" =>
       /\ Len(web.permissions) % 2 = 1
       /\ web.ck = NoWeb.ck
       /\ web.pc = "none"
       /\ web.served = 0
  /\ web.built = "yes" =>
       /\ Len(web.permissions) % 2 = 0
       /\ Len(web.ck.plans) = Len(web.ck.perms)
       /\ Len(web.ck.plans) >= 1
  /\ web.pc # "none" => web.built = "yes"

\* NewJWTChecker has panicked on "Anonymous", 6, "Personal", and time has
\* passed without any request served
C20_Witness ==
  /\ web.built = "panic"
  /\ Len(web.permissions) = 3
  /\ now = MaxTime

(***************************************************************************)
(* C26.  SplitThreeParts.                                                  *)
(***************************************************************************)
\* the positions (from 1) of the dots of a token
DotsAt(tok) == {i \in 1..Len(tok) : tok[i] = 46}

\* C26: SplitThreeParts fails, with the malformed-token error, exactly when
\* the token has fewer than two dots; otherwise p1 is the index of the first
\* dot and p2 that of the last one, with 0 <= p1 < p2 < len(jwt); in both
\* cases the token is as it was when SplitThreeParts has returned
C26_SplitThreeParts ==
  \A p \in Goroutines :
    LET c == call[p]
        dots == DotsAt(c.arg)
    IN c.op = "Claims" /\ Ran(c, "split") =>
         /\ c.trace = <<"split">> => c.buf = c.arg
         /\ IF Cardinality(dots) < 2
            THEN c.pc = "done" /\ c.ret.err = "ErrThreeParts" /\ ~c.ret.some
            ELSE /\ c.ret.err # "ErrThreeParts"
                 /\ c.p1 + 1 \in dots
                 /\ c.p2 + 1 \in dots
                 /\ \A i \in dots : c.p1 + 1 <= i /\ i <= c.p2 + 1
                 /\ 0 <= c.p1 /\ c.p1 < c.p2 /\ c.p2 < Len(c.arg)

\* SplitThreeParts has returned the first and the last dot of a token that
\* has three
C26_Witness ==
  \E p \in Goroutines :
    /\ call[p].op = "Claims"
    /\ call[p].trace = <<"split">>
    /\ Cardinality(DotsAt(call[p].arg)) = 3
    /\ call[p].p1 + 1 \in DotsAt(call[p].arg)
    /\ \A i \in DotsAt(call[p].arg) : i <= call[p].p2 + 1
    /\ call[p].p1 + 1 < call[p].p2

(***************************************************************************)
(* C27.  The key texts the HMAC constructors accept.                       *)
(***************************************************************************)
\* the HMAC constructors that accept the key text
Accepting(keyTxt) ==
  (IF NewHS256(keyTxt, FALSE).err = "nil" THEN {"HS256"} ELSE {})
  \cup (IF NewHS384(keyTxt, FALSE).err = "nil" THEN {"HS384"} ELSE {})
  \cup (IF NewHS512(keyTxt, FALSE).err = "nil" THEN {"HS512"} ELSE {})

\* the first algorithm of order whose constructor accepts, "none" if none does
FirstAccepted(order, acc) ==
  IF \E i \in 1..Len(order) : order[i] \in acc
  THEN order[CHOOSE i \in 1..Len(order) :
               order[i] \in acc /\ \A j \in 1..(i - 1) : order[j] \notin acc]
  ELSE "none"

\* the six orders in which the three constructors can be tried
TryOrders ==
  { <<"HS256", "HS384", "HS512">>, <<"HS256", "HS512", "HS384">>,
    <<"HS384", "HS256", "HS512">>, <<"HS384", "HS512", "HS256">>,
    <<"HS512", "HS256", "HS384">>, <<"HS512", "HS384", "HS256">> }

\* C27 as the code has it: a key text of 64 hexadecimal digits is accepted by
\* NewHS256 (32 bytes in hexadecimal) and by NewHS384 (48 bytes in base64),
\* and NewHMAC selects HS256 for it where an order that tries HS384 first
\* would select HS384; every other key text is accepted by at most one of
\* NewHS256, NewHS384 and NewHS512, and the order does not matter for it
\* (stated of the key text of the descriptor, between the calls)
C27_OverlapAtHex64 ==
  (\A p \in Goroutines : call[p].pc = "idle") =>
  LET keyTxt == KeyTextOf(made.algoKey)
      acc == Accepting(keyTxt)
  IN /\ IF IsHex(keyTxt) /\ Len(keyTxt) = 64
        THEN acc = {"HS256", "HS384"}
        ELSE Cardinality(acc) <= 1
     /\ Cardinality(acc) <= 1 =>
          \A o \in TryOrders : FirstAccepted(o, acc) = FirstAccepted(<<"HS256", "HS384", "HS512">>, acc)
     /\ IndexByte(keyTxt, 58) < 0 =>
          LET r == NewHMAC(keyTxt, FALSE)
              first == FirstAccepted(<<"HS256", "HS384", "HS512">>, acc)
          IN IF first = "none" THEN r.err # "nil" ELSE r.err = "nil" /\ r.val.itab = first

\* the bare secret of 64 hexadecimal digits is accepted by NewHS256 and by
\* NewHS384, and the verifier made of it is an HS256 one
C27_Witness ==
  /\ IndexByte(made.algoKey, 58) < 0
  /\ IsHex(made.algoKey)
  /\ Accepting(made.algoKey) = {"HS256", "HS384"}
  /\ made.err = "nil"
  /\ v.itab = "HS256"
  /\ FirstAccepted(<<"HS384", "HS256", "HS512">>, Accepting(made.algoKey)) = "HS384"

\* C27 as stated: no key text is accepted by two of NewHS256, NewHS384 and
\* NewHS512, and every order of trial selects the same algorithm
C27_NeverOverlap ==
  LET acc == Accepting(KeyTextOf(made.algoKey))
  IN /\ Cardinality(acc) <= 1
     /\ \A o \in TryOrders : FirstAccepted(o, acc) = FirstAccepted(<<"HS256", "HS384", "HS512">>, acc)

(***************************************************************************)
(* C30.  The reuse flag does not change what Claims returns.               *)
(***************************************************************************)
\* C30: for every algorithm and every token, Claims on a verifier that
\* decodes in the buffer of the token returns what Claims returns on the
\* token left as it was: the same claims or the same error; and the bytes of
\* the buffer that precede the last dot are those of the token as long as
\* they have not been hashed for the verification of the signature
C30_ReuseSameResults ==
  \A p \in Goroutines :
    LET c == call[p] IN
    /\ Finished(p, "Claims") =>
         c.ret = ClaimsOf(v, c.arg, IF Ran(c, "valid") THEN c.at ELSE now)
    /\ c.op = "Claims" /\ c.pc \in {"new", "sigdec", "write", "sum"} =>
         Slice(c.buf, 0, c.p2) = Slice(c.arg, 0, c.p2)

\* Claims has returned the claims of a token signed with ECDSA after the
\* signature and the payload were decoded in its buffer
C30_Witness ==
  \E p \in Goroutines :
    /\ Finished(p, "Claims")
    /\ IsECDSA(v.itab)
    /\ Reuse(v)
    /\ call[p].ret.some
    /\ Slice(call[p].buf, call[p].p1 + 1, call[p].p2) # Slice(call[p].arg, call[p].p1 + 1, call[p].p2)
    /\ Slice(call[p].buf, call[p].p2 + 1, Len(call[p].buf))
         # Slice(call[p].arg, call[p].p2 + 1, Len(call[p].arg))

(***************************************************************************)
(* The Muter: Increment and Decrement.                                     *)
(***************************************************************************)
\* the values given to Threshold, RemindMuteState and NoAlertDuration
Thresholds == {-1, 0, 2}

Reminders == {-2, 0, 1, 2}

Durations == {0, 2}

\* the counter and the number of dropped calls stay within these
MaxCounter == 4

MaxDropped == 4

\* the remainder a % b of Go: it has the sign of a
GoRem(a, b) ==
  LET r == (IF a < 0 THEN -a ELSE a) % (IF b < 0 THEN -b ELSE b)
  IN IF a < 0 THEN -r ELSE r

\* Increment muting as soon as the counter is at the Threshold
IncrementAtThreshold(m) ==
  LET c == [m EXCEPT !.counter = @ + 1]
      d == [c EXCEPT !.dropped = @ + 1]
  IN IF c.muted
     THEN IF d.RemindMuteState = 0 \/ GoRem(d.dropped, d.RemindMuteState) > 0
          THEN [m |-> d, ok |-> FALSE, dropped |-> -1]
          ELSE [m |-> d, ok |-> TRUE, dropped |-> d.dropped]
     ELSE IF c.counter >= c.Threshold
     THEN [m |-> [c EXCEPT !.muted = TRUE, !.dropped = 0, !.quietTime = NoTime],
           ok |-> TRUE, dropped |-> 1]
     ELSE [m |-> c, ok |-> TRUE, dropped |-> 0]

\* (m *Muter).Increment: [m, ok, dropped]
Increment(m) ==
  LET c == [m EXCEPT !.counter = @ + 1]
      d == [c EXCEPT !.dropped = @ + 1]
  IN IF c.muted /\ (d.RemindMuteState = 0 \/ GoRem(d.dropped, d.RemindMuteState) > 0)
     THEN [m |-> d, ok |-> FALSE, dropped |-> -1]
     ELSE IF c.muted
     THEN [m |-> d, ok |-> TRUE, dropped |-> d.dropped]
     ELSE IF c.counter > c.Threshold
     THEN [m |-> [c EXCEPT !.muted = TRUE, !.dropped = 0, !.quietTime = NoTime],
           ok |-> TRUE, dropped |-> 1]
     ELSE [m |-> c, ok |-> TRUE, dropped |-> 0]

\* Decrement leaving the counter as it is when the time has elapsed
DecrementNoReset(m, t) ==
  LET c == [m EXCEPT !.counter = @ - 1]
      refused(x) == [m |-> x, ok |-> FALSE, time |-> NoTime, dropped |-> 0]
  IN IF ~m.muted THEN refused(m)
     ELSE IF c.counter > 0 /\ c.quietTime = NoTime
     THEN refused([c EXCEPT !.quietTime = t])
     ELSE IF c.counter > 0 /\ t - c.quietTime < c.NoAlertDuration
     THEN refused(c)
     ELSE LET d == [c EXCEPT !.muted = FALSE]
          IN [m |-> d, ok |-> TRUE, time |-> d.quietTime, dropped |-> d.dropped]

\* Decrement without the early return of the un-muted state
DecrementAlways(m, t) ==
  LET c == [m EXCEPT !.counter = @ - 1]
      refused(x) == [m |-> x, ok |-> FALSE, time |-> NoTime, dropped |-> 0]
  IN IF c.counter > 0 /\ c.quietTime = NoTime
     THEN refused([c EXCEPT !.quietTime = t])
     ELSE IF c.counter > 0 /\ t - c.quietTime < c.NoAlertDuration
     THEN refused(c)
     ELSE LET d == [c EXCEPT !.counter = IF c.counter > 0 THEN 0 ELSE @, !.muted = FALSE]
          IN [m |-> d, ok |-> TRUE, time |-> d.quietTime, dropped |-> d.dropped]

\* (m *Muter).Decrement at time t: [m, ok, time, dropped]
Decrement(m, t) ==
  LET c == [m EXCEPT !.counter = @ - 1]
      refused(x) == [m |-> x, ok |-> FALSE, time |-> NoTime, dropped |-> 0]
  IN IF ~m.muted THEN refused(m)
     ELSE IF c.counter > 0 /\ c.quietTime = NoTime
     THEN refused([c EXCEPT !.quietTime = t])
     ELSE IF c.counter > 0 /\ t - c.quietTime < c.NoAlertDuration
     THEN refused(c)
     ELSE LET d == [c EXCEPT !.counter = IF c.counter > 0 THEN 0 ELSE @, !.muted = FALSE]
          IN [m |-> d, ok |-> TRUE, time |-> d.quietTime, dropped |-> d.dropped]

\* a Muter is made with its three public fields set
NewMuter ==
  /\ ~muter.made
  /\ \E th \in Thresholds, re \in Reminders, du \in Durations :
       muter' = [NoMuter EXCEPT !.made = TRUE,
                   !.m = [ZeroMuter EXCEPT !.Threshold = th, !.RemindMuteState = re,
                                           !.NoAlertDuration = du]]
  /\ UNCHANGED <<now, made, v, active, inputs, call, digest, web, md>>

\* m.Increment() is called and returns
CallIncrement ==
  /\ muter.made
  /\ muter.m.counter < MaxCounter
  /\ muter.m.dropped < MaxDropped
  /\ LET r == Increment(muter.m)
     IN muter' = [muter EXCEPT !.m = r.m, !.before = muter.m, !.op = "Increment",
                    !.at = now, !.ok = r.ok, !.dropped = r.dropped, !.time = NoTime,
                    !.sinceMuted = IF muter.m.muted THEN @ + 1 ELSE 0,
                    !.incSinceQuiet = TRUE, !.runStart = NoTime]
  /\ UNCHANGED <<now, made, v, active, inputs, call, digest, web, md>>

\* m.Decrement() is called and returns
CallDecrement ==
  /\ muter.made
  /\ LET r == Decrement(muter.m, now)
     IN muter' = [muter EXCEPT !.m = r.m, !.before = muter.m, !.op = "Decrement",
                    !.at = now, !.ok = r.ok, !.dropped = r.dropped, !.time = r.time,
                    !.sinceMuted = IF r.m.muted THEN @ ELSE 0,
                    !.incSinceQuiet = IF r.m.quietTime # muter.m.quietTime THEN FALSE ELSE @,
                    !.runStart = IF @ = NoTime THEN now ELSE @]
  /\ UNCHANGED <<now, made, v, active, inputs, call, digest, web, md>>

InitMuter == Constructed(WebSecrets, {}, 0, "muter")

NextMuter == NewMuter \/ CallIncrement \/ CallDecrement \/ Tick

SpecMuter == InitMuter /\ [][NextMuter]_vars

(***************************************************************************)
(* C21: what Increment returns.                                            *)
(***************************************************************************)
\* the absolute value
Abs(n) == IF n < 0 THEN -n ELSE n

\* the last call was Increment / Decrement
Incremented == muter.made /\ muter.op = "Increment"

Decremented == muter.made /\ muter.op = "Decrement"

\* C21 (as amended): an Increment made in the muted state leaves it muted and
\* returns ok=false with dropped=-1, except that when RemindMuteState is not
\* zero (positive or negative) every |RemindMuteState|-th Increment made since
\* the state became muted returns ok=true with the number of Increment calls
\* made since it became muted; an Increment made in the un-muted state adds one
\* to the counter, returns ok=true, and mutes exactly when the counter it
\* leaves is above Threshold.
C21_Increment ==
  Incremented =>
    LET b == muter.before
        m == muter.m
        n == muter.sinceMuted
        re == m.RemindMuteState
    IN /\ m.counter = b.counter + 1
       /\ b.muted =>
            /\ m.muted
            /\ muter.ok <=> (re # 0 /\ n % Abs(re) = 0)
            /\ muter.ok => muter.dropped = n
            /\ ~muter.ok => muter.dropped = -1
       /\ ~b.muted =>
            /\ muter.ok
            /\ m.muted <=> m.counter > m.Threshold
            /\ muter.dropped = (IF m.muted THEN 1 ELSE 0)

\* a muted Muter with RemindMuteState = -2 has just reminded at the second
\* Increment since it became muted
C21_Witness ==
  /\ Incremented
  /\ muter.before.muted
  /\ muter.m.RemindMuteState = -2
  /\ muter.sinceMuted = 2
  /\ muter.ok
  /\ muter.dropped = 2

\* C21 as stated: in the muted state Increment returns ok=false except that
\* when RemindMuteState > 0 every RemindMuteState-th Increment since the state
\* became muted returns ok=true with the number of calls since then; in the
\* un-muted state it returns ok=true and the Increment raising the counter
\* above Threshold mutes.
C21_RemindOnlyWhenPositive ==
  Incremented =>
    LET b == muter.before
        m == muter.m
        n == muter.sinceMuted
        re == m.RemindMuteState
    IN /\ b.muted =>
            /\ muter.ok <=> (re > 0 /\ n % re = 0)
            /\ muter.ok => muter.dropped = n
       /\ ~b.muted =>
            /\ muter.ok
            /\ (b.counter <= m.Threshold /\ m.counter > m.Threshold) => m.muted

(***************************************************************************)
(* C22: what Decrement does.                                               *)
(***************************************************************************)
\* C22: a Decrement made in the muted state takes one off the counter; it
\* un-mutes and returns ok=true exactly when the counter has reached zero or
\* quietTime was recorded and at least NoAlertDuration has elapsed since it,
\* and then the counter is zero; otherwise it stays muted and returns ok=false
\* (recording the current time as quietTime when none was recorded).  A
\* Decrement made in the un-muted state changes no field and returns ok=false.
C22_Decrement ==
  Decremented =>
    LET b == muter.before
        m == muter.m
        elapsed == b.quietTime # NoTime /\ muter.at - b.quietTime >= b.NoAlertDuration
    IN /\ ~b.muted => (m = b /\ ~muter.ok)
       /\ b.muted =>
            IF b.counter - 1 = 0 \/ elapsed
            THEN /\ muter.ok
                 /\ m = [b EXCEPT !.counter = 0, !.muted = FALSE]
            ELSE /\ ~muter.ok
                 /\ m = [b EXCEPT !.counter = @ - 1,
                                  !.quietTime = IF @ = NoTime THEN muter.at ELSE @]

\* a Decrement un-muted by time: the counter was 3 and is reset to zero
C22_Witness ==
  /\ Decremented
  /\ muter.before.muted
  /\ muter.before.counter = 3
  /\ muter.before.NoAlertDuration = 2
  /\ muter.ok
  /\ ~muter.m.muted
  /\ muter.m.counter = 0

(***************************************************************************)
(* C28: the counter.                                                       *)
(***************************************************************************)
\* C28: the counter is never negative, and it is at least 1 whenever the
\* Muter is muted.
C28_CounterNeverNegative ==
  muter.made =>
    /\ muter.m.counter >= 0
    /\ muter.m.muted => muter.m.counter >= 1

\* a Decrement has left a Muter of negative Threshold muted with counter 1
C28_Witness ==
  /\ Decremented
  /\ muter.m.Threshold = -1
  /\ muter.m.muted
  /\ muter.m.counter = 1

(***************************************************************************)
(* C29: quietTime.                                                         *)
(***************************************************************************)
\* C29: while muted with quietTime set, quietTime is the time of the first
\* Decrement of the current run of successive Decrement calls and no
\* Increment has been called since it was recorded; a Decrement that un-mutes
\* by time (the counter not having reached zero) comes NoAlertDuration after
\* the first Decrement of its run, with no Increment in between.
C29_QuietSinceLastIncrement ==
  muter.made =>
    /\ (muter.m.muted /\ muter.m.quietTime # NoTime) =>
         /\ ~muter.incSinceQuiet
         /\ muter.op = "Decrement" => muter.m.quietTime = muter.runStart
    /\ (Decremented /\ muter.ok /\ muter.before.counter > 1) =>
         /\ ~muter.incSinceQuiet
         /\ muter.at - muter.runStart >= muter.m.NoAlertDuration

(***************************************************************************)
(* md-code: extraction of the fenced blocks of a Markdown file.            *)
(* A path is kept as the list of its components, a filename as [abs,       *)
(* parts]; the file system maps the absolute paths that exist to           *)
(* [dir, data].                                                            *)
(***************************************************************************)
\* the output folder /w/out (Config.folder is absolute and clean)
Folder == <<"w", "out">>

\* the filenames a line of the Markdown can carry
NoName == [abs |-> FALSE, parts |-> <<>>]

OnceGo == [abs |-> FALSE, parts |-> <<"once.go">>]

SubDirExampleGo == [abs |-> FALSE, parts |-> <<"sub", "dir", "example.go">>]

EvilGo == [abs |-> FALSE, parts |-> <<"..", "evil.go">>]

EtcEvilGo == [abs |-> TRUE, parts |-> <<"etc", "evil.go">>]

DotDotOut == [abs |-> FALSE, parts |-> <<"..", "out">>]

Filenames == {OnceGo, SubDirExampleGo, EvilGo, EtcEvilGo, DotDotOut}

\* the lines of a Markdown file: a line naming a file, a line of text, an
\* opening fence with its language tag, a closing fence
NameLine(n) == [k |-> "name", name |-> n, text |-> "name"]

TextLine(t) == [k |-> "text", name |-> NoName, text |-> t]

Lines ==
  {NameLine(n) : n \in Filenames} \cup {TextLine("v1")}
    \cup {[k |-> "open", name |-> NoName, text |-> "~~~go"],
          [k |-> "close", name |-> NoName, text |-> "~~~"]}

\* the lines read from one file, and the lines kept of one block
MaxLines == 9

MaxBlock == 1

\* a directory, a file holding data
DirEntry == [dir |-> TRUE, data |-> <<>>]

FileEntry(data) == [dir |-> FALSE, data |-> data]

\* the file systems extraction starts from: the folder missing, empty, and
\* holding once.go next to evil.go in the parent directory
InitFs ==
  LET top == (<<>> :> DirEntry) @@ (<<"w">> :> DirEntry)
      out == top @@ (Folder :> DirEntry)
  IN {top, out,
      out @@ (<<"w", "out", "once.go">> :> FileEntry(<<"old">>))
          @@ (<<"w", "evil.go">> :> FileEntry(<<"old">>))}

\* filepath.Clean of the components of a path
RECURSIVE CleanFrom(_, _, _)
CleanFrom(abs, parts, out) ==
  IF parts = <<>> THEN out
  ELSE LET h == Head(parts)
           t == Tail(parts)
       IN IF h = "." \/ h = "" THEN CleanFrom(abs, t, out)
          ELSE IF h # ".." THEN CleanFrom(abs, t, Append(out, h))
          ELSE IF out # <<>> /\ out[Len(out)] # ".."
          THEN CleanFrom(abs, t, SubSeq(out, 1, Len(out) - 1))
          ELSE IF abs THEN CleanFrom(abs, t, out)
          ELSE CleanFrom(abs, t, Append(out, ".."))

\* filepath.Join(c.folder, name), cleaned: the name is appended to the
\* folder whether or not it starts with a separator
JoinClean(folder, name) == CleanFrom(TRUE, folder \o name.parts, <<>>)

\* filepath.Rel(base, targ) of two clean absolute paths
Rel(base, targ) ==
  LET same == {n \in 0..Min(Len(base), Len(targ)) : SubSeq(base, 1, n) = SubSeq(targ, 1, n)}
      k == CHOOSE n \in same : \A o \in same : o <= n
      r == [i \in 1..(Len(base) - k) |-> ".."] \o SubSeq(targ, k + 1, Len(targ))
  IN IF r = <<>> THEN <<".">> ELSE r

\* filepath.Dir of a clean absolute path
Dir(path) == IF path = <<>> THEN <<>> ELSE SubSeq(path, 1, Len(path) - 1)

\* os.MkdirAll: [fs, err, made]
MkdirAll(fs, dir) ==
  LET pre == {SubSeq(dir, 1, n) : n \in 0..Len(dir)}
      new == pre \ DOMAIN fs
  IN IF \E q \in pre \cap DOMAIN fs : ~fs[q].dir
     THEN [fs |-> fs, err |-> "mkdir", made |-> {}]
     ELSE [fs |-> [q \in DOMAIN fs \cup new |-> IF q \in new THEN DirEntry ELSE fs[q]],
           err |-> "nil", made |-> new]

\* os.Remove: a file or an empty directory is removed
Remove(fs, path) ==
  IF /\ path \in DOMAIN fs
     /\ ~(fs[path].dir /\ \E q \in DOMAIN fs : q # path /\ IsPrefix(path, q))
  THEN [q \in DOMAIN fs \ {path} |-> fs[q]]
  ELSE fs

\* os.Rename of a file: it replaces a file at the new path, and fails on a
\* directory
Rename(fs, from, to) ==
  IF to \in DOMAIN fs /\ fs[to].dir
  THEN [fs |-> fs, err |-> "rename"]
  ELSE [fs |-> [q \in (DOMAIN fs \cup {to}) \ {from} |-> IF q = to THEN fs[from] ELSE fs[q]],
        err |-> "nil"]

\* (c *Config).writeBlock: [fs, err, touched], touched being the paths
\* where an entry was created, replaced or removed, the temporary file
\* included.  Symbolic links are not modelled.
writeBlock(c, fs, name, data) ==
  LET cleanTarget == JoinClean(c.folder, name)
      rel == Rel(c.folder, cleanTarget)
      dir == Dir(cleanTarget)
      mk == MkdirAll(fs, dir)
      tmp == Append(dir, ".tmp-1")
      written == mk.fs @@ (tmp :> FileEntry(data))
      cleared == IF c.overwrite THEN Remove(written, cleanTarget) ELSE written
      moved == Rename(cleared, tmp, cleanTarget)
  IN IF name.abs THEN [fs |-> fs, err |-> "absolute", touched |-> {}]
     ELSE IF rel[1] = ".." THEN [fs |-> fs, err |-> "outside", touched |-> {}]
     ELSE IF mk.err # "nil" THEN [fs |-> fs, err |-> "mkdir", touched |-> {}]
     ELSE IF c.dryRun THEN [fs |-> mk.fs, err |-> "nil", touched |-> mk.made]
     ELSE IF moved.err # "nil"
     THEN [fs |-> Remove(cleared, tmp), err |-> moved.err,
           touched |-> mk.made \cup {tmp} \cup (DOMAIN written \ DOMAIN cleared)]
     ELSE [fs |-> moved.fs, err |-> "nil", touched |-> mk.made \cup {tmp, cleanTarget}]

\* (m *matcher).store
store(prev, idx, line) == [prev |-> [prev EXCEPT ![idx + 1] = line], idx |-> 1 - idx]

\* (m *matcher).filename: the first stored line, in the order of the slots,
\* that is not empty and matches
filename(prev) ==
  LET hit == {i \in 1..2 : prev[i].text # "" /\ prev[i].k = "name"}
  IN IF hit = {} THEN NoName ELSE prev[CHOOSE i \in hit : \A j \in hit : i <= j].name

\* fmt.Sprintf("code-block-%d.%s", lineNum, "go")
CodeBlock(lineNum) ==
  [abs |-> FALSE,
   parts |-> << <<"code-block-1.go", "code-block-2.go", "code-block-3.go", "code-block-4.go",
                  "code-block-5.go", "code-block-6.go", "code-block-7.go", "code-block-8.go",
                  "code-block-9.go", "code-block-10.go">>[lineNum] >>]

\* no call of writeBlock yet
NoWrite == [name |-> NoName, data |-> <<>>, err |-> "nil", touched |-> {}]

\* md-code is started in extraction mode on some folder
StartExtract ==
  /\ md.pc = "none"
  /\ \E fs \in InitFs, dryRun \in BOOLEAN, overwrite \in BOOLEAN, all \in BOOLEAN :
       md' = [pc |-> "scan",
              c |-> [folder |-> Folder, dryRun |-> dryRun, overwrite |-> overwrite, all |-> all],
              fs |-> fs, before |-> fs,
              prev |-> <<TextLine(""), TextLine("")>>, idx |-> 0,
              lineNum |-> 0, filename |-> NoName, buf |-> <<>>, skipNextClosing |-> FALSE,
              ret |-> "nil", last |-> NoWrite, escaped |-> FALSE]
  /\ UNCHANGED <<now, made, v, active, inputs, call, digest, web, muter>>

\* one turn of the loop of extractFiles on the next line of the file
ReadLine ==
  /\ md.pc = "scan"
  /\ md.lineNum < MaxLines
  /\ \E line \in Lines :
       LET n == md.lineNum + 1
           found == filename(md.prev)
           w == writeBlock(md.c, md.fs, md.filename, md.buf)
           kept == store(md.prev, md.idx, line)
       IN /\ (line.k \in {"name", "text"} /\ md.filename # NoName) =>
               (line.k = "text" /\ Len(md.buf) < MaxBlock)
          /\ md' =
               IF line.k = "close"
               THEN IF md.filename = NoName THEN [md EXCEPT !.lineNum = n]
                    ELSE IF md.skipNextClosing
                    THEN [md EXCEPT !.lineNum = n, !.skipNextClosing = FALSE]
                    ELSE [md EXCEPT !.lineNum = n, !.fs = w.fs, !.filename = NoName,
                                    !.buf = <<>>,
                                    !.last = [name |-> md.filename, data |-> md.buf,
                                              err |-> w.err, touched |-> w.touched],
                                    !.escaped = @ \/ \E q \in w.touched :
                                                  ~IsPrefix(Folder, q)]
               ELSE IF line.k = "open"
               THEN IF md.filename # NoName
                    THEN [md EXCEPT !.lineNum = n, !.skipNextClosing = TRUE]
                    ELSE IF found # NoName THEN [md EXCEPT !.lineNum = n, !.filename = found]
                    ELSE IF md.c.all
                    THEN [md EXCEPT !.lineNum = n, !.filename = CodeBlock(n)]
                    ELSE [md EXCEPT !.lineNum = n]
               ELSE IF md.filename = NoName
               THEN [md EXCEPT !.lineNum = n, !.prev = kept.prev, !.idx = kept.idx]
               ELSE [md EXCEPT !.lineNum = n, !.buf = Append(@, line.text)]
  /\ UNCHANGED <<now, made, v, active, inputs, call, digest, web, muter>>

\* the file is at its end: extractFiles returns
EndOfFile ==
  /\ md.pc = "scan"
  /\ md' = [md EXCEPT !.pc = "done",
                      !.ret = IF md.filename # NoName THEN "unterminated" ELSE "nil"]
  /\ UNCHANGED <<now, made, v, active, inputs, call, digest, web, muter>>

InitMd == Constructed(WebSecrets, {}, 0, "md") /\ ~made.reuse

NextMd == StartExtract \/ ReadLine \/ EndOfFile

SpecMd == InitMd /\ [][NextMd]_vars

(***************************************************************************)
(* C23: the files that exist already.                                      *)
(***************************************************************************)
\* extractFiles has been started
Extracting == md.pc # "none"

\* the files of a file system
FilesOf(fs) == {q \in DOMAIN fs : ~fs[q].dir}

\* C23: with overwrite=false every file that existed before extractFiles
\* still exists with the same content, whatever blocks the Markdown holds;
\* with overwrite=true a block written for an existing file has replaced its
\* content.
C23_ExistingFilesKept ==
  Extracting =>
    /\ ~md.c.overwrite =>
         \A q \in FilesOf(md.before) : q \in DOMAIN md.fs /\ md.fs[q] = md.before[q]
    /\ (md.c.overwrite /\ ~md.c.dryRun /\ md.last.name # NoName /\ md.last.err = "nil") =>
         LET q == JoinClean(md.c.folder, md.last.name)
         IN q \in FilesOf(md.before) => md.fs[q] = FileEntry(md.last.data)

(***************************************************************************)
(* C24: dry-run.                                                           *)
(***************************************************************************)
\* C24: with dryRun=true the file system holds the same entries, files and
\* directories, with the same content as before extractFiles, at every line
\* of any Markdown input.
C24_DryRunWritesNothing == (Extracting /\ md.c.dryRun) => md.fs = md.before

(***************************************************************************)
(* C25: the output folder is not left.                                     *)
(***************************************************************************)
\* C25: extractFiles creates, replaces or removes nothing outside the output
\* folder, not even for a moment, and the folder stays a directory; a block
\* whose filename is absolute or resolves outside the folder fails with a
\* warning and touches nothing; and extractFiles returns nil when the last
\* block is closed.
C25_StaysInsideFolder ==
  Extracting =>
    /\ ~md.escaped
    /\ \A q \in DOMAIN md.before \cup DOMAIN md.fs :
         ~IsPrefix(Folder, q) => (q \in DOMAIN md.before \cap DOMAIN md.fs /\ md.fs[q] = md.before[q])
    /\ Folder \in DOMAIN md.fs => md.fs[Folder].dir
    /\ (md.last.name.abs \/ ~IsPrefix(Folder, JoinClean(md.c.folder, md.last.name))) =>
         (md.last.err # "nil" /\ md.last.touched = {})
    /\ (md.pc = "done" /\ md.filename = NoName) => md.ret = "nil"

====
